---- MODULE Spec2Model ----
(***************************************************************************)
(* Model of the LINE group-chat ledger bot of src/app.py: the message      *)
(* router handle_message with its pending-delete slot and last-detail-view *)
(* cache, the record store it drives, and the settlement engine            *)
(* (build_settlement_text, allocate_proportional_amounts).                 *)
(*                                                                         *)
(* Time is abstract: a created_at value is a point of Times, compared the  *)
(* way the store compares timestamps, and a range of a query is a run of   *)
(* such points.  An inbound event carries the reading get_now() gives      *)
(* while it is handled.  A message is modelled after tokenising, as the    *)
(* value its parser returns.                                               *)
(***************************************************************************)
EXTENDS Integers, Sequences, FiniteSets, TLC

\* ------------------------------------------------------------------ bounds
\* rows the store is given in one run: ledger records and settlement payments
MaxRows == 2

\* ------------------------------------------------------- program constants
\* get_detailed_records(chat_id, range_spec, limit=30)
DetailLimit == 30

\* ------------------------------------------------------------------ domains
Chats == {"group:G", "user:U1"}
Users == {"U1", "U2"}
Items == {"lunch"}
Amounts == {100}
\* record_type as stored: "expense" stands for the stored text zhichu (the type a
\* record line has unless it names the other one)
Types == {"expense"}
Times == {0, 1}
ManualNames == {"Amy"}
\* the names a manual member may carry; "Bob" is also the profile name of a
\* roster user, "@Amy" is a name that keeps an at sign of its own
MemberNames == {"Amy", "Bob", "@Amy"}
\* the six confirmation texts; "queding", "queren" and "hao" stand for the three
\* Chinese tokens, which the module's ASCII strings cannot spell
confirm_keywords == {"queding", "queren", "ok", "OK", "Ok", "hao"}
\* texts that do not start with the command prefix and are no confirmation
OtherTexts == {"oK"}

\* Python's None / a present value
None == <<>>
Some(v) == <<v>>
IsNone(o) == o = <<>>
Val(o) == o[1]

Min(a, b) == IF a < b THEN a ELSE b
Max(a, b) == IF a > b THEN a ELSE b

\* ------------------------------------------------------------------- state
VARIABLES
    records,              \* table records: set of rows
    next_id,              \* AUTOINCREMENT / BIGSERIAL counter of records.id
    PENDING_DELETE,       \* dict chat_id -> [real_id, display_id]
    LAST_DETAIL_VIEW,     \* dict chat_id -> list of records.id
    manual_members,       \* table manual_members: set of rows
    settlement_payments,  \* table settlement_payments: list of rows
    calc                  \* the locals of one settlement computation under way

vars == <<records, next_id, PENDING_DELETE, LAST_DETAIL_VIEW, manual_members,
          settlement_payments, calc>>

\* The stored state the handler reads and writes, as one value.
Store == [records |-> records, next_id |-> next_id, pending |-> PENDING_DELETE,
          detail |-> LAST_DETAIL_VIEW, manual |-> manual_members,
          payments |-> settlement_payments]

\* ------------------------------------------------------------ record store
\* ORDER BY created_at DESC, id DESC
Newer(r1, r2) ==
    \/ r1.created_at > r2.created_at
    \/ r1.created_at = r2.created_at /\ r1.id > r2.id

RECURSIVE OrderDesc(_)
OrderDesc(S) ==
    IF S = {} THEN <<>>
    ELSE LET top == CHOOSE r \in S : \A o \in S \ {r} : Newer(r, o)
         IN  <<top>> \o OrderDesc(S \ {top})

ChatRecords(recs, chat_id) == {r \in recs : r.chat_id = chat_id}

save_record(recs, id, user_id, chat_id, item, amount, record_type, created_at) ==
    recs \cup {[id |-> id, user_id |-> user_id, chat_id |-> chat_id, item |-> item,
                amount |-> amount, record_type |-> record_type,
                created_at |-> created_at]}

get_record_by_id(recs, chat_id, record_id) ==
    LET hit == {r \in recs : r.chat_id = chat_id /\ r.id = record_id}
    IN  IF hit = {} THEN None ELSE Some(CHOOSE r \in hit : TRUE)

\* the same query ordered oldest first
get_record_by_display_id_OldestFirst(recs, chat_id, display_id) ==
    IF display_id <= 0 THEN None
    ELSE LET rows == OrderDesc(ChatRecords(recs, chat_id))
         IN  IF display_id - 1 < Len(rows) THEN Some(rows[Len(rows) + 1 - display_id])
             ELSE None

\* the same query with the conversation test left out of its WHERE clause
get_record_by_display_id_AnyChat(recs, chat_id, display_id) ==
    IF display_id <= 0 THEN None
    ELSE LET rows == OrderDesc(recs)
         IN  IF display_id - 1 < Len(rows) THEN Some(rows[display_id]) ELSE None

get_record_by_display_id(recs, chat_id, display_id) ==
    IF display_id <= 0 THEN None
    ELSE LET rows == OrderDesc(ChatRecords(recs, chat_id))
         IN  IF display_id - 1 < Len(rows) THEN Some(rows[display_id]) ELSE None

\* the cached list indexed one place too far
get_record_by_last_detail_id_OffByOne(recs, detail, chat_id, display_id) ==
    IF display_id <= 0 THEN None
    ELSE LET detail_record_ids ==
                 IF chat_id \in DOMAIN detail THEN detail[chat_id] ELSE <<>>
         IN  IF display_id + 1 > Len(detail_record_ids) THEN None
             ELSE get_record_by_id(recs, chat_id, detail_record_ids[display_id + 1])

get_record_by_last_detail_id(recs, detail, chat_id, display_id) ==
    IF display_id <= 0 THEN None
    ELSE LET detail_record_ids ==
                 IF chat_id \in DOMAIN detail THEN detail[chat_id] ELSE <<>>
         IN  IF display_id > Len(detail_record_ids) THEN None
             ELSE get_record_by_id(recs, chat_id, detail_record_ids[display_id])

\* a DELETE whose WHERE clause lost its id
delete_record_by_id_WholeChat(recs, chat_id, record_id) ==
    {r \in recs : r.chat_id # chat_id}

delete_record_by_id(recs, chat_id, record_id) ==
    {r \in recs : ~(r.chat_id = chat_id /\ r.id = record_id)}

update_record_by_id(recs, chat_id, record_id, item, amount, record_type, created_at) ==
    {IF r.chat_id = chat_id /\ r.id = record_id
        THEN [r EXCEPT !.item = item, !.amount = amount,
                       !.record_type = record_type, !.created_at = created_at]
        ELSE r : r \in recs}

\* A range_spec after get_range_start_end: [start, end), either side optional.
InRange(t, range) ==
    /\ (IsNone(range.start) \/ t >= Val(range.start))
    /\ (IsNone(range.end) \/ t < Val(range.end))

get_detailed_records(recs, chat_id, range, limit) ==
    LET rows == OrderDesc({r \in ChatRecords(recs, chat_id) : InRange(r.created_at, range)})
    IN  SubSeq(rows, 1, Min(limit, Len(rows)))


\* ---------------------------------------------------------- manual members
\* normalize_manual_member_name on the names of the model: one leading at sign
\* is dropped (no name of the model is blank or longer than 30)
normalize_manual_member_name(name_text) ==
    IF name_text = "@@Amy" THEN "@Amy"
    ELSE IF name_text = "@Amy" THEN "Amy"
    ELSE name_text

\* INSERT ... ON CONFLICT (chat_id, member_name) DO UPDATE SET created_at
save_manual_member(manual, chat_id, member_name, created_at) ==
    LET normalized_name == normalize_manual_member_name(member_name)
    IN  {m \in manual : ~(m.chat_id = chat_id /\ m.member_name = normalized_name)}
            \cup {[chat_id |-> chat_id, member_name |-> normalized_name,
                   created_at |-> created_at]}

delete_manual_member(manual, chat_id, member_name) ==
    LET normalized_name == normalize_manual_member_name(member_name)
    IN  {m \in manual : ~(m.chat_id = chat_id /\ m.member_name = normalized_name)}

\* The sequences that list the set S once each, in non-increasing key order: the
\* answers a SELECT ... ORDER BY key DESC may give (rows of equal key in any order).
OrdersDesc(S, key(_)) ==
    {s \in [1..Cardinality(S) -> S] :
        /\ \A i, j \in 1..Cardinality(S) : i < j => s[i] # s[j] /\ key(s[i]) >= key(s[j])}

ManualCreatedAt(m) == m.created_at

\* SELECT member_name FROM manual_members WHERE chat_id = ? ORDER BY created_at DESC
get_manual_members(manual, chat_id) ==
    LET rows == {m \in manual : m.chat_id = chat_id}
    IN  {[i \in 1..Len(s) |-> s[i].member_name] : s \in OrdersDesc(rows, ManualCreatedAt)}

\* ------------------------------------------------------ settlement payments
save_settlement_payment(payments, chat_id, from_user_id, to_name, amount, created_at) ==
    Append(payments, [chat_id |-> chat_id, from_user_id |-> from_user_id,
                      to_name |-> to_name, amount |-> amount,
                      created_at |-> created_at])

\* ---------------------------------------------------------------- replies
\* One reply_message call: which text (kind), the display id it names, and the
\* record rows it prints.
Reply(kind, display_id, rows) == [kind |-> kind, display_id |-> display_id, rows |-> rows]

\* What handle_message leaves behind: the stored state and the replies sent.
Outcome(st, replies) == [st |-> st, replies |-> replies]


\* ------------------------------------------------- roster and display names
\* The chats of the model: one group conversation and one 1:1 conversation.
SourceType(chat_id) == IF chat_id = "group:G" THEN "group" ELSE "user"
Senders(chat_id) == IF chat_id = "group:G" THEN {"U2"} ELSE {"U1"}
BOT_USER_ID == "BOT"
\* what get_group_member_ids answers for the group when the call succeeds
GroupRoster == <<"U1", "U2", "BOT">>

ManualId(member_name) == "__manual_" \o member_name
IsManualId(user_id) == \E n \in MemberNames : user_id = ManualId(n)
\* the placeholders build_settlement_text pads a short roster with
UntrackedId(index) == "__untracked_" \o ToString(index)
UntrackedName(index) == "untracked" \o ToString(index)
IsUntrackedId(user_id) == \E i \in 1..3 : user_id = UntrackedId(i)
\* get_member_profile(...).display_name of the users of the model
ProfileName(user_id) ==
    IF user_id = "U1" THEN "Una"
    ELSE IF user_id = "U2" THEN "Bob"
    ELSE IF user_id = "U3" THEN "Cat"
    ELSE IF user_id = "U4" THEN "Dan"
    ELSE user_id

resolve_display_name(user_id) ==
    IF IsManualId(user_id)
        THEN CHOOSE n \in MemberNames : user_id = ManualId(n)
    ELSE IF IsUntrackedId(user_id)
        THEN UntrackedName(CHOOSE i \in 1..3 : user_id = UntrackedId(i))
    ELSE ProfileName(user_id)

get_settlement_display_name(user_id) == resolve_display_name(user_id)

SeqRange(s) == {s[i] : i \in 1..Len(s)}

get_chat_participant_sources(chat_id, user_id, api_ok) ==
    LET api_member_ids ==
            IF SourceType(chat_id) = "group" /\ api_ok THEN GroupRoster ELSE <<>>
        api_error == SourceType(chat_id) = "group" /\ ~api_ok
    IN  [api_member_ids |-> api_member_ids,
         merged_member_ids |->
             IF api_member_ids # <<>> THEN api_member_ids
             ELSE IF SourceType(chat_id) = "group" THEN <<>>
             ELSE <<user_id>>,
         api_error |-> api_error]

\* The month scope parse_range_spec([], month) resolves to: from the start of the
\* clock's period, no upper end.
MonthScope(t) == [start |-> Some(t), end |-> None]

PaidBy(recs, chat_id, range, user_id) ==
    {r \in ChatRecords(recs, chat_id) :
        /\ InRange(r.created_at, range)
        /\ r.record_type = "expense"
        /\ r.user_id = user_id}

RECURSIVE SumAmounts(_)
SumAmounts(S) ==
    IF S = {} THEN 0
    ELSE LET r == CHOOSE x \in S : TRUE IN r.amount + SumAmounts(S \ {r})

PaidRowKey(row) == row.paid

\* SELECT user_id, SUM(amount) AS paid ... GROUP BY user_id ORDER BY paid DESC:
\* the orders the store may answer in.
get_expense_by_user(recs, chat_id, range) ==
    LET payers == {r.user_id : r \in {x \in ChatRecords(recs, chat_id) :
                        InRange(x.created_at, range) /\ x.record_type = "expense"}}
        rows == {[user_id |-> u, paid |-> SumAmounts(PaidBy(recs, chat_id, range, u))] :
                    u \in payers}
    IN  OrdersDesc(rows, PaidRowKey)

\* append_member over a list of user ids, skipping display names already seen
RECURSIVE AppendMembers(_, _, _)
AppendMembers(members, user_ids, source) ==
    IF user_ids = <<>> THEN members
    ELSE LET user_id == Head(user_ids)
             display_name == get_settlement_display_name(user_id)
             seen == {members[i].display_name : i \in 1..Len(members)}
         IN  AppendMembers(
                 IF display_name \in seen THEN members
                 ELSE Append(members, [user_id |-> user_id,
                                       display_name |-> display_name,
                                       source |-> source]),
                 Tail(user_ids), source)

\* build_member_check_data: the list "settlement_members".  paid_rows and
\* manual_names are the answers the store gave to the two ordered queries.
build_member_check_data(chat_id, user_id, api_ok, paid_rows, manual_names) ==
    LET sources == get_chat_participant_sources(chat_id, user_id, api_ok)
        filtered_member_ids ==
            SelectSeq(sources.merged_member_ids, LAMBDA u : u # BOT_USER_ID)
        paid_user_ids == [i \in 1..Len(paid_rows) |-> paid_rows[i].user_id]
        supplemented_user_ids ==
            SelectSeq(paid_user_ids,
                      LAMBDA u : u # BOT_USER_ID /\ u \notin SeqRange(filtered_member_ids))
        with_api == AppendMembers(<<>>, filtered_member_ids, "api")
        with_record == AppendMembers(with_api, supplemented_user_ids, "record")
    IN  AppendMembers(with_record,
                      [i \in 1..Len(manual_names) |-> ManualId(manual_names[i])],
                      "manual")


\* ------------------------------------------------------------ timestamps
\* datetime values: [year, month, day, hour, minute, second]
\* created_at as stored: the ISO text of a datetime, which sorts as the
\* datetimes do; the model keeps its rank among the datetimes from 2024 on
to_db_created_at(created_at) ==
    (((((created_at.year - 2024) * 12 + (created_at.month - 1)) * 31
        + (created_at.day - 1)) * 24 + created_at.hour) * 60 + created_at.minute) * 60
        + created_at.second

from_db_created_at(created_at_value) ==
    [year |-> 2024 + created_at_value \div (12 * 31 * 24 * 60 * 60),
     month |-> 1 + ((created_at_value \div (31 * 24 * 60 * 60)) % 12),
     day |-> 1 + ((created_at_value \div (24 * 60 * 60)) % 31),
     hour |-> (created_at_value \div (60 * 60)) % 24,
     minute |-> (created_at_value \div 60) % 60,
     second |-> created_at_value % 60]
\* build_member_check_text: the count of API members, the list printed with
\* the source of each entry, and whether the "API error" line is printed
build_member_check_text(chat_id, user_id, api_ok, paid_rows, manual_names) ==
    [api_member_count |->
         Len(get_chat_participant_sources(chat_id, user_id, api_ok).api_member_ids),
     settlement_members |->
         build_member_check_data(chat_id, user_id, api_ok, paid_rows, manual_names),
     api_error_line |-> get_chat_participant_sources(chat_id, user_id, api_ok).api_error]

\* ------------------------------------------------------------- the router
\* dict[key] = value / dict.pop(key, None)
DictPut(d, k, v) == [x \in (DOMAIN d) \cup {k} |-> IF x = k THEN v ELSE d[x]]
DictPop(d, k) == [x \in (DOMAIN d) \ {k} |-> d[x]]
EmptyDict == [x \in {} |-> 0]

\* An inbound event is [chat_id, user_id, now, msg]: now is what get_now() reads
\* while the event is handled, msg is the incoming text as the
\* parsers of handle_message read it:
\*   [kind |-> "text", text]       a text that does not start with the prefix
\*   [kind |-> "help"]             the prefix alone, or the format request
\*   [kind |-> "invalid"]          a prefixed text one of the parsers rejects
\*   [kind |-> "add_member", name]
\*   [kind |-> "delete_member", index, api_ok, paid_rows, manual_names]
\*   [kind |-> "payment", to_name, amount]
\*   [kind |-> "delete", record_id]
\*   [kind |-> "modify", record_id, item, amount, record_type, record_datetime]
\*   [kind |-> "query", command_type, range]
\*   [kind |-> "record", lines]    lines of [item, amount, record_type,
\*                                 record_datetime, target_member_name]
\* The parameter t of the handlers below is e.now.

\* handle_message, lines 2040-2046
HandleAddMember(st, e, t) ==
    Outcome([st EXCEPT !.manual = save_manual_member(st.manual, e.chat_id, e.msg.name, t)],
            <<Reply("member_added", 0, <<>>)>>)

\* handle_message, lines 2054-2088
HandleDeleteMember(st, e, t) ==
    LET settlement_members ==
            build_member_check_data(e.chat_id, e.user_id, e.msg.api_ok,
                                    e.msg.paid_rows, e.msg.manual_names)
        delete_member_index == e.msg.index
    IN  IF delete_member_index > Len(settlement_members)
            THEN Outcome(st, <<Reply("member_not_found", delete_member_index, <<>>)>>)
        ELSE LET target_member == settlement_members[delete_member_index]
             IN  IF target_member.source # "manual"
                     THEN Outcome(st, <<Reply("member_not_manual", delete_member_index, <<>>)>>)
                 ELSE LET deleted == delete_manual_member(st.manual, e.chat_id,
                                                          target_member.display_name)
                      IN  Outcome(
                              [st EXCEPT !.manual = deleted],
                              <<Reply(IF deleted = st.manual THEN "manual_not_found"
                                      ELSE "member_deleted",
                                      delete_member_index, <<>>)>>)

\* handle_message, lines 2096-2112
HandlePayment(st, e, t) ==
    Outcome([st EXCEPT
                !.manual = save_manual_member(st.manual, e.chat_id, e.msg.to_name, t),
                !.payments = save_settlement_payment(st.payments, e.chat_id, e.user_id,
                                                     e.msg.to_name, e.msg.amount, t)],
            <<Reply("payment_recorded", 0, <<>>)>>)

\* a resolution that never consults the cached listing
ResolveDisplayId_HistoryOnly(st, chat_id, display_id) ==
    get_record_by_display_id(st.records, chat_id, display_id)

\* The record a delete or modify command naming display_id addresses.
ResolveDisplayId(st, chat_id, display_id) ==
    LET record == get_record_by_last_detail_id(st.records, st.detail, chat_id, display_id)
    IN  IF IsNone(record)
            THEN get_record_by_display_id(st.records, chat_id, display_id)
            ELSE record

\* handle_message, lines 2120-2134
HandleDelete(st, e, t) ==
    LET display_record_id == e.msg.record_id
        record == ResolveDisplayId(st, e.chat_id, display_record_id)
    IN  IF IsNone(record)
            THEN Outcome(st, <<Reply("delete_not_found", display_record_id, <<>>)>>)
        ELSE Outcome(
                 [st EXCEPT !.pending =
                     DictPut(st.pending, e.chat_id,
                             [real_id |-> Val(record).id, display_id |-> display_record_id])],
                 <<Reply("delete_preview", display_record_id, record)>>)

\* handle_message, lines 2142-2192
HandleModify(st, e, t) ==
    LET modify_command == e.msg
        display_record_id == modify_command.record_id
        old_record == ResolveDisplayId(st, e.chat_id, display_record_id)
    IN  IF IsNone(old_record)
            THEN Outcome(st, <<Reply("modify_not_found", display_record_id, <<>>)>>)
        ELSE LET old == Val(old_record)
                 item == IF IsNone(modify_command.item) THEN old.item
                         ELSE Val(modify_command.item)
                 amount == IF IsNone(modify_command.amount) THEN old.amount
                           ELSE Val(modify_command.amount)
                 record_type == IF IsNone(modify_command.record_type) THEN old.record_type
                                ELSE Val(modify_command.record_type)
                 record_datetime == IF IsNone(modify_command.record_datetime)
                                        THEN to_db_created_at(from_db_created_at(old.created_at))
                                        ELSE Val(modify_command.record_datetime)
                 updated == update_record_by_id(st.records, e.chat_id, old.id, item, amount,
                                                record_type, record_datetime)
             IN  Outcome([st EXCEPT !.records = updated],
                         <<Reply("modified", display_record_id,
                                 get_record_by_id(updated, e.chat_id, old.id))>>)

\* build_detail_text: the rows listed and the cache it leaves
build_detail_text(st, chat_id, range) ==
    LET rows == get_detailed_records(st.records, chat_id, range, DetailLimit)
    IN  IF rows = <<>>
            THEN Outcome([st EXCEPT !.detail = DictPop(st.detail, chat_id)],
                         <<Reply("detail", 0, <<>>)>>)
        ELSE Outcome([st EXCEPT !.detail =
                         DictPut(st.detail, chat_id, [i \in 1..Len(rows) |-> rows[i].id])],
                     <<Reply("detail", Len(rows), rows)>>)

\* handle_message, lines 2203-2219
HandleQuery(st, e, t) ==
    IF e.msg.command_type = "detail"
        THEN build_detail_text(st, e.chat_id, e.msg.range)
        ELSE Outcome(st, <<Reply(e.msg.command_type, 0, <<>>)>>)

\* a row stored under the smallest id above the ids now in the table
SaveLine_ReuseId(st, e, line, t) ==
    LET free == CHOOSE i \in 1..st.next_id :
                    /\ \A r \in st.records : r.id < i
                    /\ \A j \in 1..(i - 1) : \E r \in st.records : r.id >= j
    IN  [st EXCEPT
            !.records = save_record(st.records, free, e.user_id, e.chat_id,
                                    line.item, line.amount, line.record_type,
                                    line.record_datetime),
            !.next_id = st.next_id + 1]

\* handle_message, lines 2230-2243: one line of the batch
SaveLine(st, e, line, t) ==
    LET targeted == ~IsNone(line.target_member_name)
        record_user_id == IF targeted THEN ManualId(Val(line.target_member_name))
                          ELSE e.user_id
    IN  [st EXCEPT
            !.manual = IF targeted
                           THEN save_manual_member(st.manual, e.chat_id,
                                                   Val(line.target_member_name), t)
                           ELSE st.manual,
            !.records = save_record(st.records, st.next_id, record_user_id, e.chat_id,
                                    line.item, line.amount, line.record_type,
                                    line.record_datetime),
            !.next_id = st.next_id + 1]

RECURSIVE SaveLines(_, _, _, _)
SaveLines(st, e, lines, t) ==
    IF lines = <<>> THEN st
    ELSE SaveLines(SaveLine(st, e, Head(lines), t), e, Tail(lines), t)

\* handle_message, lines 2221-2263
HandleRecord(st, e, t) ==
    Outcome(SaveLines(st, e, e.msg.lines, t),
            <<Reply("recorded", Len(e.msg.lines), <<>>)>>)

\* handle_message from line 2024 on: the routing of a text once the
\* pending-delete gate is passed
Route(st, e, t) ==
    CASE e.msg.kind = "text" -> Outcome(st, <<>>)
      [] e.msg.kind = "help" -> Outcome(st, <<Reply("help", 0, <<>>)>>)
      [] e.msg.kind = "invalid" -> Outcome(st, <<Reply("error", 0, <<>>)>>)
      [] e.msg.kind = "add_member" -> HandleAddMember(st, e, t)
      [] e.msg.kind = "delete_member" -> HandleDeleteMember(st, e, t)
      [] e.msg.kind = "payment" -> HandlePayment(st, e, t)
      [] e.msg.kind = "delete" -> HandleDelete(st, e, t)
      [] e.msg.kind = "modify" -> HandleModify(st, e, t)
      [] e.msg.kind = "query" -> HandleQuery(st, e, t)
      [] e.msg.kind = "record" -> HandleRecord(st, e, t)

IsConfirm(e) == e.msg.kind = "text" /\ e.msg.text \in confirm_keywords

\* handle_message, lines 2009-2020: a confirmation with the slot armed
ConfirmDelete(st, e, t) ==
    LET pending_delete == st.pending[e.chat_id]
        deleted == delete_record_by_id(st.records, e.chat_id, pending_delete.real_id)
    IN  Outcome([st EXCEPT !.records = deleted,
                           !.pending = DictPop(st.pending, e.chat_id)],
                <<Reply(IF deleted = st.records THEN "delete_not_found" ELSE "deleted",
                        pending_delete.display_id, <<>>)>>)

\* the slot left armed when the text is no confirmation
DisarmAndRoute_KeepSlot(st, e, t) == Route(st, e, t)

\* a second delete request answered but not allowed to replace the first
DisarmAndRoute_FirstWins(st, e, t) ==
    IF e.msg.kind = "delete"
        THEN Outcome(st, Route(st, e, t).replies)
        ELSE Route([st EXCEPT !.pending = DictPop(st.pending, e.chat_id)], e, t)

\* handle_message, line 2022 and on: any other text with the slot armed
DisarmAndRoute(st, e, t) ==
    Route([st EXCEPT !.pending = DictPop(st.pending, e.chat_id)], e, t)

\* the confirmation test made before the slot is looked at
handle_message_ConfirmFirst(st, e) ==
    IF IsConfirm(e)
        THEN IF e.chat_id \in DOMAIN st.pending THEN ConfirmDelete(st, e, e.now)
             ELSE Outcome(st, <<Reply("delete_not_found", 0, <<>>)>>)
        ELSE DisarmAndRoute(st, e, e.now)

\* handle_message
handle_message(st, e) ==
    IF e.chat_id \in DOMAIN st.pending
        THEN IF IsConfirm(e) THEN ConfirmDelete(st, e, e.now)
             ELSE DisarmAndRoute(st, e, e.now)
        ELSE Route(st, e, e.now)


\* ------------------------------------------------ the ledger state machine
\* no settlement computation is under way
NoCall == [pc |-> "none"]

Init ==
    /\ records = {}
    /\ next_id = 1
    /\ PENDING_DELETE = EmptyDict
    /\ LAST_DETAIL_VIEW = EmptyDict
    /\ manual_members = {}
    /\ settlement_payments = <<>>
    /\ calc = NoCall

Event(chat_id, user_id, t, msg) ==
    [chat_id |-> chat_id, user_id |-> user_id, now |-> t, msg |-> msg]

\* One inbound event handled from start to end.
Deliver(e) ==
    \E out \in {handle_message(Store, e)} :
        /\ records' = out.st.records
        /\ next_id' = out.st.next_id
        /\ PENDING_DELETE' = out.st.pending
        /\ LAST_DETAIL_VIEW' = out.st.detail
        /\ manual_members' = out.st.manual
        /\ settlement_payments' = out.st.payments
        /\ UNCHANGED calc

\* The clock does not run backwards: a reading is no earlier than the created_at
\* of any row the clock stamped.
ClockReadings(st) ==
    {t \in Times :
        /\ \A m \in st.manual : m.created_at <= t
        /\ \A i \in 1..Len(st.payments) : st.payments[i].created_at <= t}

\* the ranges a query names: everything, one period, or the month scope of now
Ranges(t) ==
    {[start |-> None, end |-> None], MonthScope(t)}
        \cup {[start |-> Some(p), end |-> Some(p + 1)] : p \in Times}

Opt(S) == {None} \cup {Some(v) : v \in S}

\* what parse_add_member_command returns for the texts sent: a name as written,
\* with one at sign left after the first was dropped, or with two
AddedNames == ManualNames \cup {"@Amy", "@@Amy"}

\* the members a record line or a payment may name in a chat
Targets(chat_id) == IF chat_id = "group:G" THEN ManualNames ELSE {}

RecordLines(chat_id) ==
    [item : Items, amount : Amounts, record_type : Types,
     record_datetime : Times, target_member_name : Opt(Targets(chat_id))]

\* the modify commands sent: a type alone, a date alone, or item and amount
ModifyCommands ==
    {m \in [kind : {"modify"}, record_id : 1..MaxRows, item : Opt(Items),
            amount : Opt(Amounts), record_type : Opt(Types),
            record_datetime : Opt(Times)] :
        \/ IsNone(m.item) /\ IsNone(m.amount)
              /\ (IsNone(m.record_type) # IsNone(m.record_datetime))
        \/ ~IsNone(m.item) /\ ~IsNone(m.amount)
              /\ IsNone(m.record_type) /\ IsNone(m.record_datetime)}

\* who writes in which chat
ChatUsers == {p \in Chats \X Users : p[2] \in Senders(p[1])}
\* carried in place of a reading by an event whose handling does not read the clock
NoClock == None
\* the rows written so far
RowsWritten(st) == (st.next_id - 1) + Len(st.payments)

\* The events the environment may send when the stored state is st, by the
\* branch of handle_message that takes them.
ConfirmEvents(st) ==
    {Event(p[1], p[2], NoClock, [kind |-> "text", text |-> x]) :
        p \in ChatUsers, x \in confirm_keywords}

OtherTextEvents(st) ==
    {Event(p[1], p[2], NoClock, [kind |-> "text", text |-> x]) :
        p \in ChatUsers, x \in OtherTexts}

HelpEvents(st) == {Event(p[1], p[2], NoClock, [kind |-> "help"]) : p \in ChatUsers}

InvalidEvents(st) == {Event(p[1], p[2], NoClock, [kind |-> "invalid"]) : p \in ChatUsers}

AddMemberEvents(st) ==
    {Event(p[1], p[2], t, [kind |-> "add_member", name |-> n]) :
        p \in {q \in ChatUsers : Targets(q[1]) # {}}, t \in ClockReadings(st),
        n \in AddedNames}

DeleteMemberEvents(st) ==
    UNION {UNION {
        {Event(p[1], p[2], t, [kind |-> "delete_member", index |-> i, api_ok |-> ok,
                               paid_rows |-> paid_rows, manual_names |-> manual_names]) :
            i \in 1..3, ok \in IF SourceType(p[1]) = "group" THEN BOOLEAN ELSE {TRUE},
            paid_rows \in get_expense_by_user(st.records, p[1], MonthScope(t)),
            manual_names \in get_manual_members(st.manual, p[1])}
        : t \in ClockReadings(st)} : p \in ChatUsers}

PaymentEvents(st) ==
    IF RowsWritten(st) >= MaxRows THEN {}
    ELSE {Event(p[1], p[2], t, [kind |-> "payment", to_name |-> n, amount |-> a]) :
            p \in {q \in ChatUsers : Targets(q[1]) # {}}, t \in ClockReadings(st),
            n \in ManualNames, a \in Amounts}

DeleteEvents(st) ==
    {Event(p[1], p[2], NoClock, [kind |-> "delete", record_id |-> k]) :
        p \in ChatUsers, k \in 1..MaxRows}

ModifyEvents(st) == {Event(p[1], p[2], NoClock, m) : p \in ChatUsers, m \in ModifyCommands}

QueryEvents(st) ==
    {Event(p[1], p[2], NoClock, [kind |-> "query", command_type |-> q, range |-> None]) :
        p \in ChatUsers, q \in {"status", "member_check", "settlement", "summary"}}
    \cup UNION {
        {Event(p[1], p[2], t, [kind |-> "query", command_type |-> "detail",
                               range |-> range]) :
            p \in ChatUsers, range \in Ranges(t)} : t \in ClockReadings(st)}

RecordEvents(st) ==
    IF RowsWritten(st) >= MaxRows THEN {}
    ELSE UNION {
        {Event(p[1], p[2], t, [kind |-> "record", lines |-> <<line>>]) :
            t \in IF IsNone(line.target_member_name) THEN {NoClock} ELSE ClockReadings(st),
            p \in {q \in ChatUsers : line \in RecordLines(q[1])}}
        : line \in UNION {RecordLines(c) : c \in Chats}}

Events(st) ==
    ConfirmEvents(st) \cup OtherTextEvents(st) \cup HelpEvents(st) \cup InvalidEvents(st)
        \cup AddMemberEvents(st) \cup DeleteMemberEvents(st) \cup PaymentEvents(st)
        \cup DeleteEvents(st) \cup ModifyEvents(st) \cup QueryEvents(st)
        \cup RecordEvents(st)

\* One action per branch of handle_message, guarded by the test that selects it.
ConfirmText == \E e \in ConfirmEvents(Store) : IsConfirm(e) /\ Deliver(e)
OtherText == \E e \in OtherTextEvents(Store) : e.msg.kind = "text" /\ ~IsConfirm(e) /\ Deliver(e)
Help == \E e \in HelpEvents(Store) : e.msg.kind = "help" /\ Deliver(e)
Invalid == \E e \in InvalidEvents(Store) : e.msg.kind = "invalid" /\ Deliver(e)
AddMember == \E e \in AddMemberEvents(Store) : e.msg.kind = "add_member" /\ Deliver(e)
DeleteMember == \E e \in DeleteMemberEvents(Store) : e.msg.kind = "delete_member" /\ Deliver(e)
Payment == \E e \in PaymentEvents(Store) : e.msg.kind = "payment" /\ Deliver(e)
Delete == \E e \in DeleteEvents(Store) : e.msg.kind = "delete" /\ Deliver(e)
Modify == \E e \in ModifyEvents(Store) : e.msg.kind = "modify" /\ Deliver(e)
Query == \E e \in QueryEvents(Store) : e.msg.kind = "query" /\ Deliver(e)
Record == \E e \in RecordEvents(Store) : e.msg.kind = "record" /\ Deliver(e)

Next ==
    \/ ConfirmText
    \/ OtherText
    \/ Help
    \/ Invalid
    \/ AddMember
    \/ DeleteMember
    \/ Payment
    \/ Delete
    \/ Modify
    \/ Query
    \/ Record

Spec == Init /\ [][Next]_vars

\* -------------------------------------------------------------- properties
\* What follows states properties of the ledger machine.  A property about
\* "the next input" is stated over every event of the environment applied to
\* the current state: the current state ranges over all reachable ones.

\* event e sends the delete command or the modify command naming display id k in chat c
Names(e, c, k) ==
    e.chat_id = c /\ e.msg.kind \in {"delete", "modify"} /\ e.msg.record_id = k

\* handling e in state st addresses record r: a delete shows r and arms the slot
\* with r's id, a modify rewrites the row of r's id and no other
Addresses(st, e, r) ==
    \E out \in {handle_message(st, e)} :
        /\ Len(out.replies) = 1
        /\ IF e.msg.kind = "delete"
              THEN /\ out.replies[1] = Reply("delete_preview", e.msg.record_id, Some(r))
                   /\ e.chat_id \in DOMAIN out.st.pending
                   /\ out.st.pending[e.chat_id].real_id = r.id
                   /\ out.st.records = st.records
              ELSE /\ out.replies[1].kind = "modified"
                   /\ ~IsNone(out.replies[1].rows)
                   /\ Val(out.replies[1].rows).id = r.id
                   /\ {x \in out.st.records : x.id # r.id} = {x \in st.records : x.id # r.id}
                   /\ \E x \in out.st.records : x.id = r.id /\ x.chat_id = r.chat_id

\* the delete request e, handled in state st, resolves to record r: the reply
\* shows r for confirmation
ResolvesTo(st, e, r) ==
    handle_message(st, e).replies = <<Reply("delete_preview", e.msg.record_id, Some(r))>>

\* handling e in state st finds no record: nothing is changed and the slot is idle
FindsNone(st, e) ==
    \E out \in {handle_message(st, e)} :
        /\ Len(out.replies) = 1
        /\ out.replies[1].kind \in {"delete_not_found", "modify_not_found"}
        /\ out.st.records = st.records
        /\ e.chat_id \notin DOMAIN out.st.pending

\* the records of the chat that have exactly k - 1 newer ones
KthMostRecent(recs, chat_id, k) ==
    {r \in ChatRecords(recs, chat_id) :
        Cardinality({o \in ChatRecords(recs, chat_id) : Newer(o, r)}) = k - 1}

\* st with the slot of chat c idle
Idle(st, c) == [st EXCEPT !.pending = DictPop(st.pending, c)]

\* C1: a delete request that resolves to a record leaves the slot of its chat
\* holding that record's id; a confirmation token handled next in that chat
\* deletes the record of the captured id and no other record, and leaves the
\* slot idle.  Stated for the request and the token that follows it, and for
\* every state in which a slot is armed.
C1_ConfirmDeletesCaptured ==
    /\ \A e \in DeleteEvents(Store) :
          \E out \in {handle_message(Store, e)} :
              \/ FindsNone(Store, e)
              \/ \E r \in ChatRecords(records, e.chat_id) :
                    /\ Addresses(Store, e, r)
                    /\ \A c \in ConfirmEvents(out.st) :
                          c.chat_id = e.chat_id =>
                              \E fin \in {handle_message(out.st, c)} :
                                  /\ fin.st.records = records \ {r}
                                  /\ e.chat_id \notin DOMAIN fin.st.pending
                                  /\ fin.replies = <<Reply("deleted", e.msg.record_id, <<>>)>>
    /\ \A c \in ConfirmEvents(Store) :
          c.chat_id \in DOMAIN PENDING_DELETE =>
              \E fin \in {handle_message(Store, c)} :
                  \E r \in ChatRecords(records, c.chat_id) :
                      /\ r.id = PENDING_DELETE[c.chat_id].real_id
                      /\ fin.st.records = records \ {r}
                      /\ fin.st = [Store EXCEPT !.records = records \ {r},
                                                !.pending = DictPop(PENDING_DELETE, c.chat_id)]

\* a confirmed delete has happened and left another record of the chat in place
C1_Witness ==
    \E id \in 1..(next_id - 1) :
        /\ \A r \in records : r.id # id
        /\ records # {}
        /\ PENDING_DELETE = EmptyDict

\* C2: with the slot of a chat armed, an input of that chat that is no
\* confirmation token leaves the armed record in the ledger and is handled as
\* it would be with the slot idle: same stored state after it, same replies;
\* the slot is idle afterwards unless the input is itself a delete request.
C2_OtherInputDisarmsThenRoutes ==
    \A e \in Events(Store) :
        (e.chat_id \in DOMAIN PENDING_DELETE /\ ~IsConfirm(e)) =>
            \E out \in {handle_message(Store, e)},
               idle \in {handle_message(Idle(Store, e.chat_id), e)} :
                /\ out = idle
                /\ \E r \in out.st.records : r.id = PENDING_DELETE[e.chat_id].real_id
                /\ (e.msg.kind # "delete" => e.chat_id \notin DOMAIN out.st.pending)

\* a slot is armed and a record line arrives in its chat: the line is saved,
\* the armed record stays, the slot is idle
C2_Witness ==
    \E e \in RecordEvents(Store) :
        /\ e.chat_id \in DOMAIN PENDING_DELETE
        /\ \E out \in {handle_message(Store, e)} :
              /\ records \subseteq out.st.records
              /\ out.st.records # records
              /\ e.chat_id \notin DOMAIN out.st.pending
              /\ out.replies = <<Reply("recorded", 1, <<>>)>>

\* C3: a delete request resolving to r1, then a delete request of the same chat
\* resolving to another record r2, then a confirmation token: r2 is deleted,
\* nothing else is, r1 stays.
C3_SecondRequestReplacesFirst ==
    \A e1, e2 \in DeleteEvents(Store) :
        e1.chat_id = e2.chat_id =>
            \A r1, r2 \in ChatRecords(records, e1.chat_id) :
                \E s1 \in {handle_message(Store, e1).st} :
                    (ResolvesTo(Store, e1, r1) /\ ResolvesTo(s1, e2, r2) /\ r1 # r2) =>
                        \E s2 \in {handle_message(s1, e2).st} :
                            \A c \in ConfirmEvents(s2) :
                                c.chat_id = e1.chat_id =>
                                    \E fin \in {handle_message(s2, c)} :
                                        /\ fin.st.records = records \ {r2}
                                        /\ r1 \in fin.st.records
                                        /\ e1.chat_id \notin DOMAIN fin.st.pending

\* two requests in a row resolve to two records, and the confirmation removes
\* the second only
C3_Witness ==
    \E e1, e2 \in DeleteEvents(Store) :
        /\ e1.chat_id = e2.chat_id
        /\ \E r1, r2 \in ChatRecords(records, e1.chat_id) :
              /\ r1 # r2
              /\ ResolvesTo(Store, e1, r1)
              /\ ResolvesTo(handle_message(Store, e1).st, e2, r2)
              /\ \E c \in ConfirmEvents(Store) :
                    /\ c.chat_id = e1.chat_id
                    /\ handle_message(handle_message(handle_message(Store, e1).st, e2).st, c)
                           .st.records = records \ {r2}


\* the listing cached for chat c, empty when there is none
Cached(st, c) == IF c \in DOMAIN st.detail THEN st.detail[c] ELSE <<>>

\* the records of chat c the cached listing shows as row k
CachedRow(st, c, k) ==
    IF k > Len(Cached(st, c)) THEN {}
    ELSE {r \in ChatRecords(st.records, c) : r.id = Cached(st, c)[k]}

\* the stored state after the delete request e and then the token c
AfterDeleteConfirm(st, e, c) == handle_message(handle_message(st, e).st, c).st

\* C4 as claimed: in a chat with at least one record, whatever came before,
\* the delete command naming 1 followed by the token queren removes the chat's
\* most recent record (greatest created_at, then greatest id).
C4_DeleteOneRemovesMostRecent ==
    \A e \in DeleteEvents(Store), c \in ConfirmEvents(Store) :
        (/\ e.chat_id = c.chat_id
         /\ e.msg.record_id = 1
         /\ c.msg.text = "queren"
         /\ ChatRecords(records, e.chat_id) # {}) =>
            AfterDeleteConfirm(Store, e, c).records
                = records \ KthMostRecent(records, e.chat_id, 1)

\* C4, amended: in a chat with at least one record, the delete command naming 1
\* followed by the token queren removes the record the chat's cached listing
\* shows as row 1 when that record is still stored, and the chat's most recent
\* record otherwise; exactly one record is removed.
C4_DeleteOneRemovesCachedElseMostRecent ==
    \A e \in DeleteEvents(Store), c \in ConfirmEvents(Store) :
        (/\ e.chat_id = c.chat_id
         /\ e.msg.record_id = 1
         /\ c.msg.text = "queren"
         /\ ChatRecords(records, e.chat_id) # {}) =>
            \E gone \in {IF CachedRow(Store, e.chat_id, 1) # {}
                             THEN CachedRow(Store, e.chat_id, 1)
                             ELSE KthMostRecent(records, e.chat_id, 1)} :
                /\ Cardinality(gone) = 1
                /\ AfterDeleteConfirm(Store, e, c).records = records \ gone

\* the cached row 1 is stored and is not the most recent record of its chat,
\* and the command and the token remove it
C4_Witness ==
    \E e \in DeleteEvents(Store), c \in ConfirmEvents(Store) :
        /\ e.chat_id = c.chat_id
        /\ e.msg.record_id = 1
        /\ c.msg.text = "queren"
        /\ CachedRow(Store, e.chat_id, 1) # {}
        /\ CachedRow(Store, e.chat_id, 1) # KthMostRecent(records, e.chat_id, 1)
        /\ AfterDeleteConfirm(Store, e, c).records
               = records \ CachedRow(Store, e.chat_id, 1)

\* C5: a confirmation token handled while the slot of its chat is idle changes
\* nothing: records, manual members, settlement payments, every slot and every
\* cached listing are as before, and no reply is sent.
C5_ConfirmWhileIdleIsIgnored ==
    \A c \in ConfirmEvents(Store) :
        c.chat_id \notin DOMAIN PENDING_DELETE =>
            handle_message(Store, c) = Outcome(Store, <<>>)

\* a token arrives in an idle chat that has records, a cached listing and a
\* manual member, while the other chat's slot is armed
C5_Witness ==
    \E c \in ConfirmEvents(Store) :
        /\ c.chat_id \notin DOMAIN PENDING_DELETE
        /\ PENDING_DELETE # EmptyDict
        /\ ChatRecords(records, c.chat_id) # {}
        /\ c.chat_id \in DOMAIN LAST_DETAIL_VIEW
        /\ manual_members # {}
        /\ handle_message(Store, c).replies = <<>>
        /\ handle_message(Store, c).st = Store


\* e names a display id that the chat's cached listing has a row for
NamesListedRow(st, e) ==
    /\ e.msg.kind \in {"delete", "modify"}
    /\ e.msg.record_id >= 1
    /\ e.msg.record_id <= Len(Cached(st, e.chat_id))

\* the cache a detail listing leaves is the list of the ids of the rows it
\* showed, in the order shown; a listing of no rows leaves no cache
ListingIsCached ==
    \A q \in QueryEvents(Store) :
        q.msg.command_type = "detail" =>
            \E out \in {handle_message(Store, q)} :
                /\ Len(out.replies) = 1
                /\ out.replies[1].kind = "detail"
                /\ \E rows \in {out.replies[1].rows} :
                      Cached(out.st, q.chat_id) = [i \in 1..Len(rows) |-> rows[i].id]
                /\ (out.replies[1].rows = <<>>) = (q.chat_id \notin DOMAIN out.st.detail)

\* C6 as claimed: with a listing of n rows cached for a chat, a delete or a
\* modify command naming k, 1 <= k <= n, addresses the record the listing
\* showed as row k, whatever happened since the listing.
C6_ListedRowIsAddressed ==
    \A e \in DeleteEvents(Store) \cup ModifyEvents(Store) :
        NamesListedRow(Store, e) =>
            \E r \in ChatRecords(records, e.chat_id) :
                /\ r.id = Cached(Store, e.chat_id)[e.msg.record_id]
                /\ Addresses(Store, e, r)

\* C6, amended: with a listing of n rows cached for a chat, a delete or a modify
\* command naming k, 1 <= k <= n, addresses the record the listing showed as
\* row k provided that record is still stored, whatever was inserted or
\* changed since the listing; and the cache is what the listing showed.
C6_ListedRowIsAddressedWhileStored ==
    /\ ListingIsCached
    /\ \A e \in DeleteEvents(Store) \cup ModifyEvents(Store) :
          (NamesListedRow(Store, e) /\ CachedRow(Store, e.chat_id, e.msg.record_id) # {}) =>
              \A r \in CachedRow(Store, e.chat_id, e.msg.record_id) :
                  Addresses(Store, e, r)

\* a record was inserted after the listing and is now the most recent one of
\* the chat; a modify command naming 1 still rewrites the listed row 1
C6_Witness ==
    \E e \in ModifyEvents(Store) :
        /\ e.msg.record_id = 1
        /\ ~IsNone(e.msg.record_datetime)
        /\ \E r \in CachedRow(Store, e.chat_id, 1), o \in KthMostRecent(records, e.chat_id, 1) :
              /\ o.id \notin SeqRange(Cached(Store, e.chat_id))
              /\ o.id > r.id
              /\ Val(e.msg.record_datetime) # r.created_at
              /\ Addresses(Store, e, r)
              /\ o \in handle_message(Store, e).st.records
              /\ r \notin handle_message(Store, e).st.records

LimbBits == 15
LimbBase == 2 ^ LimbBits
\* bits of the significand of a Python float (IEEE 754 binary64)
MantissaBits == 53

RECURSIVE ToWide(_)
ToWide(n) == IF n = 0 THEN <<>> ELSE <<n % LimbBase>> \o ToWide(n \div LimbBase)

RECURSIVE FromWide(_)
FromWide(a) == IF a = <<>> THEN 0 ELSE Head(a) + LimbBase * FromWide(Tail(a))

RECURSIVE Trim(_)
Trim(a) == IF a # <<>> /\ a[Len(a)] = 0 THEN Trim(SubSeq(a, 1, Len(a) - 1)) ELSE a

LimbAt(a, i) == IF i >= 1 /\ i <= Len(a) THEN a[i] ELSE 0

\* a < b
WideLess(a, b) ==
    \/ Len(a) < Len(b)
    \/ /\ Len(a) = Len(b)
       /\ \E i \in 1..Len(a) : a[i] < b[i] /\ \A j \in (i + 1)..Len(a) : a[j] = b[j]

RECURSIVE AddCarry(_, _, _, _)
AddCarry(a, b, i, carry) ==
    IF i > Len(a) /\ i > Len(b) THEN IF carry = 0 THEN <<>> ELSE <<carry>>
    ELSE LET s == LimbAt(a, i) + LimbAt(b, i) + carry
         IN  <<s % LimbBase>> \o AddCarry(a, b, i + 1, s \div LimbBase)

\* a + b
WideAdd(a, b) == AddCarry(a, b, 1, 0)

RECURSIVE SubBorrow(_, _, _, _)
SubBorrow(a, b, i, borrow) ==
    IF i > Len(a) THEN <<>>
    ELSE LET s == LimbAt(a, i) - LimbAt(b, i) - borrow
         IN  <<s % LimbBase>> \o SubBorrow(a, b, i + 1, IF s < 0 THEN 1 ELSE 0)

\* a - b, for a >= b
WideSub(a, b) == Trim(SubBorrow(a, b, 1, 0))

RECURSIVE MulCarry(_, _, _, _)
MulCarry(a, s, i, carry) ==
    IF i > Len(a) THEN IF carry = 0 THEN <<>> ELSE <<carry>>
    ELSE LET p == a[i] * s + carry
         IN  <<p % LimbBase>> \o MulCarry(a, s, i + 1, p \div LimbBase)

\* a * s for a digit-sized s
MulSmall(a, s) == IF s = 0 THEN <<>> ELSE MulCarry(a, s, 1, 0)

ShiftLimbs(a, k) == IF a = <<>> THEN <<>> ELSE [i \in 1..k |-> 0] \o a

\* a * b
RECURSIVE WideMul(_, _)
WideMul(a, b) ==
    IF a = <<>> \/ b = <<>> THEN <<>>
    ELSE WideAdd(MulSmall(a, Head(b)), ShiftLimbs(WideMul(a, Tail(b)), 1))

RECURSIVE QuotientDigit(_, _, _, _)
QuotientDigit(r, d, lo, hi) ==
    IF lo = hi THEN lo
    ELSE LET mid == (lo + hi + 1) \div 2
         IN  IF WideLess(r, MulSmall(d, mid)) THEN QuotientDigit(r, d, lo, mid - 1)
             ELSE QuotientDigit(r, d, mid, hi)

RECURSIVE DivStep(_, _, _, _, _)
DivStep(n, d, i, q, r) ==
    IF i = 0 THEN [q |-> Trim(q), r |-> r]
    ELSE LET shifted == Trim(<<n[i]>> \o r)
             x == QuotientDigit(shifted, d, 0, LimbBase - 1)
         IN  DivStep(n, d, i - 1, <<x>> \o q, WideSub(shifted, MulSmall(d, x)))

\* divmod(n, s) for a digit-sized s > 0: schoolbook short division
RECURSIVE DivSmallStep(_, _, _, _, _)
DivSmallStep(n, s, i, q, r) ==
    IF i = 0 THEN [q |-> Trim(q), r |-> IF r = 0 THEN <<>> ELSE <<r>>]
    ELSE LET x == r * LimbBase + n[i]
         IN  DivSmallStep(n, s, i - 1, <<x \div s>> \o q, x % s)

\* divmod(n, d), for d > 0
WideDivMod(n, d) ==
    IF Len(d) = 1 THEN DivSmallStep(n, d[1], Len(n), <<>>, 0)
    ELSE DivStep(n, d, Len(n), <<>>, <<>>)

RECURSIVE DigitBits(_)
DigitBits(x) == IF x = 0 THEN 0 ELSE 1 + DigitBits(x \div 2)

\* n.bit_length()
BitLen(a) == IF a = <<>> THEN 0 ELSE LimbBits * (Len(a) - 1) + DigitBits(a[Len(a)])

\* a << k and a >> k
ShiftL(a, k) == ShiftLimbs(MulSmall(a, 2 ^ (k % LimbBits)), k \div LimbBits)
ShiftR(a, k) ==
    IF k \div LimbBits >= Len(a) THEN <<>>
    ELSE WideDivMod(SubSeq(a, (k \div LimbBits) + 1, Len(a)), <<2 ^ (k % LimbBits)>>).q

\* A float is m * 2^e with m of at most MantissaBits bits (one more when a
\* rounding carries, which is the same value).  RoundNearestEven takes a quotient
\* with drop surplus low bits and the remainder r of its division and keeps the
\* nearest significand, ties to the even one.
RoundKept(kept, low, r, drop) ==
    IF /\ low >= 2 ^ (drop - 1)
       /\ (r # <<>> \/ low % (2 ^ (drop - 1)) # 0 \/ kept[1] % 2 = 1)
        THEN WideAdd(kept, <<1>>)
        ELSE kept

RoundNearestEven(q, r, drop) == RoundKept(ShiftR(q, drop), q[1] % (2 ^ drop), r, drop)

RoundQuotient(qr, k) ==
    [m |-> RoundNearestEven(qr.q, qr.r, BitLen(qr.q) - MantissaBits),
     e |-> (BitLen(qr.q) - MantissaBits) - k]

\* the quotient of n * 2^k by d keeps MantissaBits + 1 or + 2 bits
ScaledQuotient(n, d, k) ==
    RoundQuotient(WideDivMod(IF k >= 0 THEN ShiftL(n, k) ELSE n,
                             IF k >= 0 THEN d ELSE ShiftL(d, 0 - k)), k)

\* n / d of two ints, d > 0: the float nearest the exact quotient
FloatQuotient(n, d) ==
    IF n = <<>> THEN [m |-> <<>>, e |-> 0]
    ELSE ScaledQuotient(n, d, (MantissaBits + 1) - (BitLen(n) - BitLen(d)))

\* int(x) of a float x >= 0
FloatToInt(x) == IF x.e >= 0 THEN ShiftL(x.m, x.e) ELSE ShiftR(x.m, 0 - x.e)

\* x - int(x), which a float holds exactly: num / 2^exp
FloatFraction(x) ==
    IF x.e >= 0 THEN [num |-> <<>>, exp |-> 0]
    ELSE [num |-> WideSub(x.m, ShiftL(ShiftR(x.m, 0 - x.e), 0 - x.e)), exp |-> 0 - x.e]

FractionLess(f, g) == WideLess(ShiftL(f.num, g.exp), ShiftL(g.num, f.exp))


\* ----------------------------------------------------- the settlement engine
\* build_settlement_text: participant_count_input = 3
participant_count_input == 3

RECURSIVE SumSeq(_)
SumSeq(s) == IF s = <<>> THEN 0 ELSE Head(s) + SumSeq(Tail(s))

RECURSIVE WideSum(_)
WideSum(s) == IF s = <<>> THEN <<>> ELSE WideAdd(Head(s), WideSum(Tail(s)))

\* the place of a user id in a list of distinct ids
IndexOf(ids, user_id) == CHOOSE i \in 1..Len(ids) : ids[i] = user_id

\* allocate_proportional_amounts, lines 1570-1574: base_value and fraction of one id
AllocationRow(user_id, raw_value) ==
    [user_id |-> user_id, base_value |-> FloatToInt(raw_value),
     fraction |-> FloatFraction(raw_value)]

\* lines 1568-1574: the rows in the order of weighted_ids
AllocationRows(total_amount, weighted_ids, weight_map, total_weight) ==
    [i \in 1..Len(weighted_ids) |->
        AllocationRow(weighted_ids[i],
                      FloatQuotient(WideMul(total_amount, weight_map[weighted_ids[i]]),
                                    total_weight))]

\* how many rows stand before row i in
\* sorted(fraction_rows, key=lambda row: row[0], reverse=True), a stable sort
SortedPosition(rows, i) ==
    Cardinality({j \in 1..Len(rows) :
        \/ FractionLess(rows[i].fraction, rows[j].fraction)
        \/ ~FractionLess(rows[j].fraction, rows[i].fraction) /\ j < i})

\* lines 1576-1581: the loop reaches row i with remaining > 0 when fewer than
\* remaining rows stand before it
GiveRemaining(total_amount, weighted_ids, rows, allocated) ==
    [user_id \in SeqRange(weighted_ids) |->
        IF WideLess(WideAdd(allocated,
                            ToWide(SortedPosition(rows, IndexOf(weighted_ids, user_id)))),
                    total_amount)
            THEN WideAdd(rows[IndexOf(weighted_ids, user_id)].base_value, <<1>>)
            ELSE rows[IndexOf(weighted_ids, user_id)].base_value]

AllocateRows(total_amount, weighted_ids, rows) ==
    GiveRemaining(total_amount, weighted_ids, rows,
                  WideSum([i \in 1..Len(rows) |-> rows[i].base_value]))

ZeroAllocation(weighted_ids) == [user_id \in SeqRange(weighted_ids) |-> <<>>]

\* lines 1560-1583
AllocateByWeight(total_amount, weighted_ids, weight_map, total_weight) ==
    IF total_weight = <<>> THEN ZeroAllocation(weighted_ids)
    ELSE AllocateRows(total_amount, weighted_ids,
                      AllocationRows(total_amount, weighted_ids, weight_map, total_weight))

\* The amounts are Python ints: total_amount and the weights are non-negative
\* here (every caller passes a pool >= 0 and paid sums >= 0), so
\* total_amount <= 0 is total_amount = 0 and max(weight, 0) is weight.
allocate_proportional_amounts(total_amount, weighted_ids, weight_map) ==
    IF total_amount = <<>> \/ weighted_ids = <<>> THEN ZeroAllocation(weighted_ids)
    ELSE AllocateByWeight(total_amount, weighted_ids, weight_map,
             WideSum([i \in 1..Len(weighted_ids) |-> weight_map[weighted_ids[i]]]))

\* build_settlement_text, lines 1723-1727: base_share, share_remainder and
\* target_share_map
target_share_map(member_extra_total, participant_ids) ==
    LET split == WideDivMod(member_extra_total, ToWide(Len(participant_ids)))
        base_share == split.q
        share_remainder == FromWide(split.r)
    IN  [user_id \in SeqRange(participant_ids) |->
            IF IndexOf(participant_ids, user_id) - 1 < share_remainder
                THEN WideAdd(base_share, <<1>>)
                ELSE base_share]


\* paid_map.get(user_id, 0)
PaidGet(paid_by_user_rows, user_id) ==
    IF \E i \in 1..Len(paid_by_user_rows) : paid_by_user_rows[i].user_id = user_id
        THEN paid_by_user_rows[CHOOSE i \in 1..Len(paid_by_user_rows) :
                                   paid_by_user_rows[i].user_id = user_id].paid
        ELSE 0

\* lines 1630-1641: the payers added to the roster, in the order of paid_map; a
\* payer whose display name is already a participant's is left out
RECURSIVE MissingPayers(_, _, _, _)
MissingPayers(paid_by_user_rows, participant_user_ids, participant_display_names, missing_payer_ids) ==
    IF paid_by_user_rows = <<>> THEN missing_payer_ids
    ELSE LET user_id == Head(paid_by_user_rows).user_id
             payer_display_name == get_settlement_display_name(user_id)
         IN  IF user_id = BOT_USER_ID \/ user_id \in SeqRange(participant_user_ids)
                 THEN MissingPayers(Tail(paid_by_user_rows), participant_user_ids,
                                    participant_display_names, missing_payer_ids)
             ELSE IF payer_display_name \in participant_display_names
                 THEN MissingPayers(Tail(paid_by_user_rows), participant_user_ids,
                                    participant_display_names, missing_payer_ids)
             ELSE MissingPayers(Tail(paid_by_user_rows), participant_user_ids,
                                participant_display_names \cup {payer_display_name},
                                Append(missing_payer_ids, user_id))

\* lines 1669-1690: fill missing_count places, first with manual members whose
\* name is not in use, then with numbered placeholders
RECURSIVE PadRows(_, _, _, _, _)
PadRows(participant_rows, missing_count, manual_member_names, next_untracked_index, used_display_names) ==
    IF missing_count = 0 THEN participant_rows
    ELSE IF manual_member_names # <<>>
        THEN LET candidate_name == Head(manual_member_names)
             IN  IF candidate_name \in used_display_names
                     THEN PadRows(participant_rows, missing_count,
                                  Tail(manual_member_names), next_untracked_index,
                                  used_display_names)
                 ELSE PadRows(Append(participant_rows,
                                     [user_id |-> ManualId(candidate_name), paid |-> 0]),
                              missing_count - 1, Tail(manual_member_names),
                              next_untracked_index,
                              used_display_names \cup {candidate_name})
    ELSE LET placeholder_name == UntrackedName(next_untracked_index)
         IN  IF placeholder_name \in used_display_names
                 THEN PadRows(participant_rows, missing_count, <<>>,
                              next_untracked_index + 1, used_display_names)
             ELSE PadRows(Append(participant_rows,
                                 [user_id |-> UntrackedId(next_untracked_index),
                                  paid |-> 0]),
                          missing_count - 1, <<>>, next_untracked_index + 1,
                          used_display_names \cup {placeholder_name})

\* lines 1588-1699: the totals, the pool and the participant rows, or the early
\* return taken.  input holds what the store and the LINE API answered.
SettlementRoster(input) ==
    LET paid_by_user_rows == input.paid_by_user_rows
        total_expense == SumSeq([i \in 1..Len(paid_by_user_rows) |->
                                    paid_by_user_rows[i].paid])
        available_bank_funds == Max(input.previous_month_balance + input.total_income, 0)
        bank_reimbursement_total == Min(total_expense, available_bank_funds)
        member_extra_total == total_expense - bank_reimbursement_total
        filtered == SelectSeq(input.merged_member_ids, LAMBDA u : u # BOT_USER_ID)
        participant_user_ids ==
            filtered \o MissingPayers(paid_by_user_rows, filtered,
                                      {resolve_display_name(u) : u \in SeqRange(filtered)},
                                      <<>>)
        participant_rows ==
            [i \in 1..Len(participant_user_ids) |->
                [user_id |-> participant_user_ids[i],
                 paid |-> PaidGet(paid_by_user_rows, participant_user_ids[i])]]
        padded ==
            PadRows(participant_rows,
                    Max(participant_count_input, Len(participant_rows))
                        - Len(participant_rows),
                    input.manual_member_names, 1,
                    {get_settlement_display_name(u) : u \in SeqRange(participant_user_ids)})
        totals == [total_expense |-> total_expense,
                   bank_reimbursement_total |-> bank_reimbursement_total,
                   member_extra_total |-> member_extra_total]
    IN  IF total_expense = 0
            THEN [pc |-> "done", input |-> input, result |-> "no_expense"]
        ELSE IF participant_user_ids = <<>>
            THEN [pc |-> "done", input |-> input, result |-> "no_roster"]
        ELSE IF SumSeq([i \in 1..Len(padded) |-> padded[i].paid]) = 0
            THEN [pc |-> "done", input |-> input, result |-> "no_expense"]
        ELSE [pc |-> "roster", input |-> input, totals |-> totals,
              participant_rows |-> padded]

\* The "API error" line of the settlement reply: lines 1645-1651 print
\* api_error_message in the early return taken without any participant, and no
\* later line of build_settlement_text reads it.
SettlementApiErrorLine(c) ==
    IF c.pc = "done" /\ c.result = "no_roster" THEN c.input.api_error_message ELSE None

ParticipantIds(participant_rows) ==
    [i \in 1..Len(participant_rows) |-> participant_rows[i].user_id]

\* lines 1711-1719: bank_withdraw_map and after_bank_paid_map
BankWithdraw(c) ==
    LET participant_ids == ParticipantIds(c.participant_rows)
        withdraw == allocate_proportional_amounts(
                        ToWide(c.totals.bank_reimbursement_total), participant_ids,
                        [u \in SeqRange(participant_ids) |->
                            ToWide(c.participant_rows[IndexOf(participant_ids, u)].paid)])
        bank_withdraw_map == [u \in SeqRange(participant_ids) |-> FromWide(withdraw[u])]
    IN  [pc |-> "banked", input |-> c.input, totals |-> c.totals,
         participant_rows |-> c.participant_rows,
         bank_withdraw_map |-> bank_withdraw_map,
         after_bank_paid_map |->
             [u \in SeqRange(participant_ids) |->
                 PaidGet(c.input.paid_by_user_rows, u) - bank_withdraw_map[u]]]


\* lines 1705-1709: participant_name_to_id.get(name); of two participants with
\* one display name the later one is kept
NameToId(participant_ids, name) ==
    LET holders == {i \in 1..Len(participant_ids) :
                        get_settlement_display_name(participant_ids[i]) = name}
    IN  IF holders = {} THEN None
        ELSE Some(participant_ids[CHOOSE i \in holders : \A j \in holders : j <= i])

\* lines 1730-1737
RECURSIVE PaymentAdjust(_, _, _)
PaymentAdjust(payment_rows, participant_ids, payment_adjust_map) ==
    IF payment_rows = <<>> THEN payment_adjust_map
    ELSE LET row == Head(payment_rows)
             to_user_id == NameToId(participant_ids,
                                    normalize_manual_member_name(row.to_name))
         IN  PaymentAdjust(Tail(payment_rows), participant_ids,
                 IF row.from_user_id \in DOMAIN payment_adjust_map /\ ~IsNone(to_user_id)
                     THEN [payment_adjust_map EXCEPT ![row.from_user_id] = @ + row.amount,
                                                     ![Val(to_user_id)] = @ - row.amount]
                     ELSE payment_adjust_map)

\* lines 1721-1748: the net delta of each participant and the two lists the
\* sweep runs over
NetDeltas(c) ==
    LET participant_ids == ParticipantIds(c.participant_rows)
        shares == target_share_map(ToWide(c.totals.member_extra_total), participant_ids)
        payment_adjust_map ==
            PaymentAdjust(c.input.payment_rows, participant_ids,
                          [u \in SeqRange(participant_ids) |-> 0])
        delta == [u \in SeqRange(participant_ids) |->
                     c.after_bank_paid_map[u] - FromWide(shares[u]) + payment_adjust_map[u]]
        rows == [i \in 1..Len(participant_ids) |->
                    [user_id |-> participant_ids[i], delta |-> delta[participant_ids[i]]]]
        positive == SelectSeq(rows, LAMBDA r : r.delta > 0)
        negative == SelectSeq(rows, LAMBDA r : r.delta < 0)
    IN  [pc |-> "sweep", input |-> c.input, totals |-> c.totals,
         participant_rows |-> c.participant_rows,
         bank_withdraw_map |-> c.bank_withdraw_map, delta |-> delta,
         creditors |-> [i \in 1..Len(positive) |->
                           [user_id |-> positive[i].user_id, need |-> positive[i].delta]],
         debtors |-> [i \in 1..Len(negative) |->
                         [user_id |-> negative[i].user_id, need |-> 0 - negative[i].delta]],
         transfers |-> <<>>, creditor_index |-> 0, debtor_index |-> 0]

\* the test of the while loop, line 1753
SweepRuns(c) == c.creditor_index < Len(c.creditors) /\ c.debtor_index < Len(c.debtors)

\* one pass of the while loop in which every transfer moves a single unit
SweepStep_OneUnit(c) ==
    LET creditor == c.creditors[c.creditor_index + 1]
        debtor == c.debtors[c.debtor_index + 1]
    IN  [c EXCEPT !.transfers = Append(@, [from_user_id |-> debtor.user_id,
                                          to_user_id |-> creditor.user_id,
                                          amount |-> 1]),
                  !.creditors[c.creditor_index + 1].need = @ - 1,
                  !.debtors[c.debtor_index + 1].need = @ - 1,
                  !.creditor_index = IF creditor.need = 1 THEN @ + 1 ELSE @,
                  !.debtor_index = IF debtor.need = 1 THEN @ + 1 ELSE @]

\* one pass of the while loop, lines 1754-1769
SweepStep(c) ==
    LET creditor == c.creditors[c.creditor_index + 1]
        debtor == c.debtors[c.debtor_index + 1]
        amount == Min(creditor.need, debtor.need)
    IN  [c EXCEPT !.transfers = IF amount > 0
                                    THEN Append(@, [from_user_id |-> debtor.user_id,
                                                    to_user_id |-> creditor.user_id,
                                                    amount |-> amount])
                                    ELSE @,
                  !.creditors[c.creditor_index + 1].need = @ - amount,
                  !.debtors[c.debtor_index + 1].need = @ - amount,
                  !.creditor_index = IF creditor.need - amount = 0 THEN @ + 1 ELSE @,
                  !.debtor_index = IF debtor.need - amount = 0 THEN @ + 1 ELSE @]

\* ------------------------------------------- the settlement as a state machine
MaxPaid == 4
MaxPayers == 3

\* who may have expense records in the settled range; "__manual_Bob" is a manual
\* member named like the roster user U2
SettlePayers == {"U1", "U2", "U3", ManualId("Bob")}
\* merged_member_ids: the lookup failed, or the group has two or four users
Rosters == {<<>>, <<"U1", "U2", "BOT">>, <<"U1", "U2", "U3", "U4", "BOT">>}
\* previous_month_balance and total_income
Funds == {[previous_month_balance |-> 0, total_income |-> 0],
          [previous_month_balance |-> 0 - 1, total_income |-> 3]}
ManualLists == {<<>>, <<"Bob", "Amy">>}
PaymentLists == {<<>>, <<[from_user_id |-> "U1", to_name |-> "Bob", amount |-> 1]>>}

\* the answers of get_expense_by_user: each payer once, with a positive sum
PaidRowSets ==
    {{[user_id |-> u, paid |-> f[u]] : u \in {x \in SettlePayers : f[x] > 0}} :
        f \in {g \in [SettlePayers -> 0..MaxPaid] :
                   Cardinality({x \in SettlePayers : g[x] > 0}) <= MaxPayers}}

\* the message of the LineBotApiError a failed lookup raises
LookupError == "HTTP 403: Forbidden"

\* what the store and the LINE API answer to one run of build_settlement_text;
\* a lookup that fails leaves the roster empty and its message behind
SettlementInput(paid_by_user_rows, fund, roster, names, payment_rows) ==
    [paid_by_user_rows |-> paid_by_user_rows,
     previous_month_balance |-> fund.previous_month_balance,
     total_income |-> fund.total_income,
     merged_member_ids |-> roster,
     api_error_message |-> IF roster = <<>> THEN Some(LookupError) ELSE None,
     manual_member_names |-> names,
     payment_rows |-> payment_rows]

LedgerIdle ==
    /\ records = {}
    /\ next_id = 1
    /\ PENDING_DELETE = EmptyDict
    /\ LAST_DETAIL_VIEW = EmptyDict
    /\ manual_members = {}
    /\ settlement_payments = <<>>

LedgerUnchanged ==
    UNCHANGED <<records, next_id, PENDING_DELETE, LAST_DETAIL_VIEW, manual_members,
                settlement_payments>>

InitSettle ==
    /\ LedgerIdle
    /\ \E rows \in PaidRowSets, fund \in Funds, roster \in Rosters,
          names \in ManualLists, payment_rows \in PaymentLists :
          \E paid_by_user_rows \in OrdersDesc(rows, PaidRowKey) :
              calc = [pc |-> "input",
                      input |-> SettlementInput(paid_by_user_rows, fund, roster, names,
                                                payment_rows)]

Roster == calc.pc = "input" /\ calc' = SettlementRoster(calc.input) /\ LedgerUnchanged
Withdraw == calc.pc = "roster" /\ calc' = BankWithdraw(calc) /\ LedgerUnchanged
Balance == calc.pc = "banked" /\ calc' = NetDeltas(calc) /\ LedgerUnchanged
Transfer == calc.pc = "sweep" /\ SweepRuns(calc) /\ calc' = SweepStep(calc) /\ LedgerUnchanged
Finish ==
    /\ calc.pc = "sweep"
    /\ ~SweepRuns(calc)
    /\ calc' = [pc |-> "done", input |-> calc.input, result |-> "settled",
                participant_rows |-> calc.participant_rows,
                bank_withdraw_map |-> calc.bank_withdraw_map, delta |-> calc.delta,
                creditors |-> calc.creditors, debtors |-> calc.debtors,
                transfers |-> calc.transfers]
    /\ LedgerUnchanged

NextSettle ==
    \/ Roster
    \/ Withdraw
    \/ Balance
    \/ Transfer
    \/ Finish

SpecSettle == InitSettle /\ [][NextSettle]_vars

\* The settlements whose sweep is followed to its end: the group of four users,
\* the three first of them paying sums in non-increasing order.
SweepPaidRowSets ==
    {{[user_id |-> u, paid |-> f[u]] : u \in {x \in {"U1", "U2", "U3"} : f[x] > 0}} :
        f \in {g \in [{"U1", "U2", "U3"} -> 0..MaxPaid] :
                   g["U1"] >= g["U2"] /\ g["U2"] >= g["U3"]}}

InitSweep ==
    /\ LedgerIdle
    /\ \E rows \in SweepPaidRowSets, fund \in Funds, payment_rows \in PaymentLists :
          \E paid_by_user_rows \in OrdersDesc(rows, PaidRowKey) :
              calc = [pc |-> "input",
                      input |-> SettlementInput(paid_by_user_rows, fund,
                                                <<"U1", "U2", "U3", "U4", "BOT">>, <<>>,
                                                payment_rows)]

\* The while loop runs to its end once entered: no pass of it waits for
\* anything, so a pass that can be taken is taken, and so is the step after it.
SpecSweep == InitSweep /\ [][NextSettle]_vars /\ WF_vars(Transfer) /\ WF_vars(Finish)

\* ------------------------------------------ the shared fund of a settlement
\* the settlement of a month is asked for over a ledger of at most MaxLedger rows
MaxLedger == 4

StartOfMonth(year, month) ==
    [year |-> year, month |-> month, day |-> 1, hour |-> 0, minute |-> 0, second |-> 0]

\* get_range_start_end for a month_year range
MonthStartEnd(range_spec) ==
    [start |-> Some(to_db_created_at(StartOfMonth(range_spec.year, range_spec.month))),
     end |-> Some(to_db_created_at(
                 IF range_spec.month = 12 THEN StartOfMonth(range_spec.year + 1, 1)
                 ELSE StartOfMonth(range_spec.year, range_spec.month + 1)))]

\* the month before taken without the step to the year before
get_previous_month_window_SameYear(range_spec) ==
    [start |-> Some(to_db_created_at(
                   StartOfMonth(range_spec.year,
                                IF range_spec.month = 1 THEN 12 ELSE range_spec.month - 1))),
     end |-> Some(to_db_created_at(StartOfMonth(range_spec.year, range_spec.month)))]

\* get_previous_month_window for a month_year range:
\* previous_month_start, current_month_start
get_previous_month_window(range_spec) ==
    [start |-> Some(to_db_created_at(
                   IF range_spec.month = 1 THEN StartOfMonth(range_spec.year - 1, 12)
                   ELSE StartOfMonth(range_spec.year, range_spec.month - 1))),
     end |-> Some(to_db_created_at(StartOfMonth(range_spec.year, range_spec.month)))]

\* SELECT COALESCE(SUM(amount), 0) ... AND record_type = ?
SumOfType(recs, chat_id, range, record_type) ==
    SumAmounts({r \in ChatRecords(recs, chat_id) :
                   InRange(r.created_at, range) /\ r.record_type = record_type})

get_balance_for_window(recs, chat_id, range) ==
    SumOfType(recs, chat_id, range, "income") - SumOfType(recs, chat_id, range, "expense")

\* get_balance_summary: total_expense, total_income
get_balance_summary(recs, chat_id, range) ==
    [total_expense |-> SumOfType(recs, chat_id, range, "expense"),
     total_income |-> SumOfType(recs, chat_id, range, "income")]

\* build_settlement_text, lines 1604-1608: what the ledger gives the pool
SettlementFund(recs, chat_id, range_spec) ==
    [previous_month_balance |->
         get_balance_for_window(recs, chat_id, get_previous_month_window(range_spec)),
     total_income |-> get_balance_summary(recs, chat_id, MonthStartEnd(range_spec)).total_income]

\* the rows a ledger may hold: in the group, at the first and the last second
\* of the months from November 2025 to February 2026, and one row of another chat
FundMoments ==
    <<[year |-> 2025, month |-> 11, day |-> 30, hour |-> 23, minute |-> 59, second |-> 59],
      StartOfMonth(2025, 12),
      [year |-> 2025, month |-> 12, day |-> 31, hour |-> 23, minute |-> 59, second |-> 59],
      StartOfMonth(2026, 1),
      [year |-> 2026, month |-> 1, day |-> 31, hour |-> 23, minute |-> 59, second |-> 59],
      StartOfMonth(2026, 2)>>

FundRow(id, chat_id, user_id, record_type, amount, moment) ==
    [id |-> id, user_id |-> user_id, chat_id |-> chat_id, item |-> "lunch",
     amount |-> amount, record_type |-> record_type,
     created_at |-> to_db_created_at(moment)]

FundRows ==
    {FundRow(i, "group:G", "U1", "expense", 2, FundMoments[i]) : i \in DOMAIN FundMoments}
        \cup {FundRow(Len(FundMoments) + i, "group:G", "U2", "income", 3, FundMoments[i]) :
                 i \in DOMAIN FundMoments}
        \cup {FundRow(2 * Len(FundMoments) + 1, "user:U1", "U1", "income", 3,
                      StartOfMonth(2026, 1))}

FundLedgers == {S \in SUBSET FundRows : Cardinality(S) <= MaxLedger}

\* the months settled: a January and a February
SettledMonths ==
    {[type |-> "month_year", year |-> 2026, month |-> 1],
     [type |-> "month_year", year |-> 2026, month |-> 2]}

InitFund ==
    /\ records \in FundLedgers
    /\ next_id = 2 * Len(FundMoments) + 2
    /\ PENDING_DELETE = EmptyDict
    /\ LAST_DETAIL_VIEW = EmptyDict
    /\ manual_members = {}
    /\ settlement_payments = <<>>
    /\ \E range_spec \in SettledMonths :
           calc = [pc |-> "asked", chat_id |-> "group:G", range_spec |-> range_spec]

\* build_settlement_text, line 1588: the paid sums, in an order the store gives
PaidRows ==
    /\ calc.pc = "asked"
    /\ \E paid_by_user_rows \in
              get_expense_by_user(records, calc.chat_id, MonthStartEnd(calc.range_spec)) :
           calc' = [pc |-> "paid", chat_id |-> calc.chat_id,
                    range_spec |-> calc.range_spec,
                    paid_by_user_rows |-> paid_by_user_rows]
    /\ LedgerUnchanged

\* build_settlement_text, lines 1604-1608
ReadFund ==
    /\ calc.pc = "paid"
    /\ calc' = [pc |-> "input",
                input |-> [range_spec |-> calc.range_spec]
                          @@ SettlementInput(
                                 calc.paid_by_user_rows,
                                 SettlementFund(records, calc.chat_id, calc.range_spec),
                                 GroupRoster, <<>>, <<>>)]
    /\ LedgerUnchanged

NextFund ==
    \/ PaidRows
    \/ ReadFund
    \/ Roster

SpecFund == InitFund /\ [][NextFund]_vars


\* --------------------------------- the two splits of a settlement, on any ints
MaxSmallWeight == 3
MaxExponent == 54

\* paid sums: small ones, ones near the end of a float's exact integers, and
\* ones past it that no float holds
Weights ==
    {ToWide(n) : n \in 0..MaxSmallWeight}
        \cup {ShiftL(<<1>>, MaxExponent - 1), ShiftL(<<1>>, MaxExponent)}
        \cup {WideAdd(ShiftL(<<1>>, MaxExponent - 1), ToWide(MaxSmallWeight)),
              WideAdd(ShiftL(<<1>>, MaxExponent), <<2>>)}

AllocationIds == <<"U1", "U2", "U3">>

\* pools from 0 to the total paid
PoolsFor(total) ==
    {pool \in {<<>>, <<1>>, <<2>>, WideDivMod(total, <<2>>).q,
               IF total = <<>> THEN <<>> ELSE WideSub(total, <<1>>), total} :
        ~WideLess(total, pool)}

InitAllocate ==
    /\ LedgerIdle
    /\ \E weight_map \in [SeqRange(AllocationIds) -> Weights] :
          \E total_amount \in
                  PoolsFor(WideSum([i \in 1..Len(AllocationIds) |->
                                       weight_map[AllocationIds[i]]])) :
              calc = [pc |-> "weights", total_amount |-> total_amount,
                      weighted_ids |-> AllocationIds, weight_map |-> weight_map]

TotalWeight(c) == WideSum([i \in 1..Len(c.weighted_ids) |-> c.weight_map[c.weighted_ids[i]]])

Allocate ==
    /\ calc.pc = "weights"
    /\ calc' = [pc |-> "allocated", total_amount |-> calc.total_amount,
                weighted_ids |-> calc.weighted_ids, weight_map |-> calc.weight_map,
                allocations |-> allocate_proportional_amounts(
                                    calc.total_amount, calc.weighted_ids, calc.weight_map)]
    /\ LedgerUnchanged

\* member_extra_total = total_expense - bank_reimbursement_total and its shares
Shares ==
    /\ calc.pc = "allocated"
    /\ calc' = [pc |-> "shared", total_amount |-> calc.total_amount,
                weighted_ids |-> calc.weighted_ids, weight_map |-> calc.weight_map,
                allocations |-> calc.allocations,
                shares |-> target_share_map(WideSub(TotalWeight(calc), calc.total_amount),
                                            calc.weighted_ids)]
    /\ LedgerUnchanged

NextAllocate ==
    \/ Allocate
    \/ Shares

SpecAllocate == InitAllocate /\ [][NextAllocate]_vars


\* ------------------------------------------- properties of the settlement
\* A settlement that went through the sweep and printed its transfer list.
Settled(c) == c.pc = "done" /\ c.result = "settled"

\* the net delta the sweep started from, of the i-th creditor / debtor
CreditorDelta(c, i) == c.delta[c.creditors[i].user_id]
DebtorDelta(c, i) == 0 - c.delta[c.debtors[i].user_id]

\* C8: in every computed settlement the creditors' net deltas and the debtors'
\* net deltas have the same sum, and when the sweep has run no creditor and no
\* debtor has anything outstanding.
C8_SettlementIsZeroSum ==
    Settled(calc) =>
        /\ SumSeq([i \in 1..Len(calc.creditors) |-> CreditorDelta(calc, i)])
               = SumSeq([i \in 1..Len(calc.debtors) |-> DebtorDelta(calc, i)])
        /\ \A i \in 1..Len(calc.creditors) : calc.creditors[i].need = 0
        /\ \A i \in 1..Len(calc.debtors) : calc.debtors[i].need = 0

\* C9: for paid amounts of positive total and a pool from 0 to that total, the
\* proportional allocation sums to the pool and the residual shares sum to the
\* total minus the pool.
C9_SplitsAreExact ==
    /\ calc.pc \in {"allocated", "shared"} /\ TotalWeight(calc) # <<>> =>
           WideSum([i \in 1..Len(calc.weighted_ids) |->
                       calc.allocations[calc.weighted_ids[i]]]) = calc.total_amount
    /\ calc.pc = "shared" /\ TotalWeight(calc) # <<>> =>
           WideSum([i \in 1..Len(calc.weighted_ids) |->
                       calc.shares[calc.weighted_ids[i]]])
               = WideSub(TotalWeight(calc), calc.total_amount)

\* A plan is a set of (debtor, creditor) pairs with a positive amount each; it
\* nets everyone to zero when each debtor pays out, and each creditor receives,
\* exactly the net delta the sweep started from.
RECURSIVE PlanSum(_, _)
PlanSum(pairs, amount) ==
    IF pairs = {} THEN 0
    ELSE LET p == CHOOSE x \in pairs : TRUE IN amount[p] + PlanSum(pairs \ {p}, amount)

NetsToZero(c, pairs, amount) ==
    /\ \A i \in 1..Len(c.debtors) :
          PlanSum({p \in pairs : p[1] = i}, amount) = DebtorDelta(c, i)
    /\ \A j \in 1..Len(c.creditors) :
          PlanSum({p \in pairs : p[2] = j}, amount) = CreditorDelta(c, j)

LargestDelta(c) ==
    LET all == {CreditorDelta(c, j) : j \in 1..Len(c.creditors)}
                   \cup {DebtorDelta(c, i) : i \in 1..Len(c.debtors)}
    IN  IF all = {} THEN 0 ELSE CHOOSE x \in all : \A y \in all : y <= x

FewerTransfersSuffice(c) ==
    \E pairs \in SUBSET ((1..Len(c.debtors)) \X (1..Len(c.creditors))) :
        /\ Cardinality(pairs) < Len(c.transfers)
        /\ \E amount \in [pairs -> 1..LargestDelta(c)] : NetsToZero(c, pairs, amount)

HasRoster(c) == c.pc \in {"roster", "banked", "sweep"} \/ Settled(c)
Payers(c) == {c.input.paid_by_user_rows[i].user_id : i \in 1..Len(c.input.paid_by_user_rows)}
TotalExpense(c) ==
    SumSeq([i \in 1..Len(c.input.paid_by_user_rows) |-> c.input.paid_by_user_rows[i].paid])

\* C11: every user with an expense record in the settled range is a participant
\* of the settlement, and the participants' paid amounts sum to the total
\* expense of the range.
C11_PayersAreParticipants ==
    HasRoster(calc) =>
        /\ Payers(calc) \subseteq SeqRange(ParticipantIds(calc.participant_rows))
        /\ SumSeq([i \in 1..Len(calc.participant_rows) |-> calc.participant_rows[i].paid])
               = TotalExpense(calc)


ParticipantNames(c) ==
    {get_settlement_display_name(u) : u \in SeqRange(ParticipantIds(c.participant_rows))}

\* C12: every manually registered member of the conversation is a participant
\* of the settlement (under its own name), whatever the external roster holds.
C12_ManualMembersAreParticipants ==
    HasRoster(calc) => SeqRange(calc.input.manual_member_names) \subseteq ParticipantNames(calc)


\* external roster members other than the bot, and payers absent from the roster
RosterUnion(c) ==
    (SeqRange(c.input.merged_member_ids) \cup Payers(c)) \ {BOT_USER_ID}

\* C13: a computed settlement has max(3, size of the union) participants; the
\* union is never truncated, and a smaller one is padded with unused manual
\* members before numbered placeholders.
C13_HeadcountIsMaxOfThreeAndUnion ==
    HasRoster(calc) =>
        /\ Len(calc.participant_rows)
               = Max(participant_count_input, Cardinality(RosterUnion(calc)))
        /\ RosterUnion(calc) \subseteq SeqRange(ParticipantIds(calc.participant_rows))
        /\ \A u \in SeqRange(ParticipantIds(calc.participant_rows)) \ RosterUnion(calc) :
              \/ IsManualId(u)
              \/ /\ IsUntrackedId(u)
                 /\ SeqRange(calc.input.manual_member_names) \subseteq ParticipantNames(calc)

\* the same with the union as build_settlement_text forms it: payers whose
\* display name a participant already carries are not counted
KeptUnion(c) ==
    {u \in RosterUnion(c) :
        u \in SeqRange(c.input.merged_member_ids)
            \/ u \in SeqRange(ParticipantIds(c.participant_rows))}


\* C13 (what the code keeps): over the union without the payers that
\* build_settlement_text drops for carrying a participant's display name, the
\* headcount is max(3, size), nothing is truncated and padding is in order.
C13_HeadcountOverKeptPayers ==
    HasRoster(calc) =>
        /\ Len(calc.participant_rows)
               = Max(participant_count_input, Cardinality(KeptUnion(calc)))
        /\ KeptUnion(calc) \subseteq SeqRange(ParticipantIds(calc.participant_rows))
        /\ \A u \in SeqRange(ParticipantIds(calc.participant_rows)) \ KeptUnion(calc) :
              \/ IsManualId(u)
              \/ /\ IsUntrackedId(u)
                 /\ SeqRange(calc.input.manual_member_names) \subseteq ParticipantNames(calc)


\* ============================================================ message text
\* A text is a sequence of characters, each a one-character string. A CJK
\* character is spelled by its pinyin and tone ("ji4", "zhang4" are the two
\* characters after "@" in the command prefix), "NL" is a line feed and
\* "fwcomma" the full-width comma.
Whitespace == {" ", "NL"}
\* re.split(r"[\s,<full-width comma>]+", ...)
FieldSeparators == Whitespace \cup {",", "fwcomma"}
Digits == {"0", "1", "2", "3", "4", "5", "6", "7", "8", "9"}

RECURSIVE lstrip(_)
lstrip(s) == IF s # <<>> /\ Head(s) \in Whitespace THEN lstrip(Tail(s)) ELSE s

RECURSIVE rstrip(_)
rstrip(s) ==
    IF s # <<>> /\ s[Len(s)] \in Whitespace THEN rstrip(SubSeq(s, 1, Len(s) - 1)) ELSE s

strip(s) == rstrip(lstrip(s))

startswith(s, prefix) == Len(s) >= Len(prefix) /\ SubSeq(s, 1, Len(prefix)) = prefix

\* s[n:]
DropFirst(s, n) == SubSeq(s, n + 1, Len(s))

\* sub in s
RECURSIVE Contains(_, _)
Contains(s, sub) ==
    IF Len(s) < Len(sub) THEN FALSE
    ELSE startswith(s, sub) \/ Contains(Tail(s), sub)

\* the non-empty maximal runs of s that hold no character of seps, in order:
\* [part for part in re.split(seps+, s) if part]
RECURSIVE SplitRuns(_, _, _, _)
SplitRuns(s, seps, run, parts) ==
    IF s = <<>> THEN (IF run = <<>> THEN parts ELSE Append(parts, run))
    ELSE IF Head(s) \in seps
        THEN SplitRuns(Tail(s), seps, <<>>, IF run = <<>> THEN parts ELSE Append(parts, run))
    ELSE SplitRuns(Tail(s), seps, Append(run, Head(s)), parts)

SplitFields(s) == SplitRuns(s, FieldSeparators, <<>>, <<>>)

\* [line.strip() for line in text.splitlines() if line.strip()]
RECURSIVE StripEach(_)
StripEach(runs) ==
    IF runs = <<>> THEN <<>>
    ELSE (IF strip(Head(runs)) = <<>> THEN <<>> ELSE <<strip(Head(runs))>>)
             \o StripEach(Tail(runs))

NonBlankLines(text) == StripEach(SplitRuns(text, {"NL"}, <<>>, <<>>))

\* the value of a character that is a decimal digit
DigitValue(c) == CHOOSE d \in 0..9 : ToString(d) = c

\* the digits of an int literal: digits with single underscores between them
RECURSIVE DecimalBody(_, _)
DecimalBody(s, after_digit) ==
    IF s = <<>> THEN after_digit
    ELSE IF Head(s) \in Digits THEN DecimalBody(Tail(s), TRUE)
    ELSE Head(s) = "_" /\ after_digit /\ Tail(s) # <<>> /\ Tail(s)[1] \in Digits
            /\ DecimalBody(Tail(s), FALSE)

\* ten times the magnitude so far, plus the next digit
DecimalShift(magnitude, digit) ==
    IF magnitude = <<>> THEN ToWide(digit)
    ELSE Trim(WideAdd(MulSmall(magnitude, 10), ToWide(digit)))

\* the magnitude the digits of s spell, as a wide natural
RECURSIVE DecimalValue(_)
DecimalValue(s) ==
    IF s = <<>> THEN <<>>
    ELSE IF s[Len(s)] = "_" THEN DecimalValue(SubSeq(s, 1, Len(s) - 1))
    ELSE DecimalShift(DecimalValue(SubSeq(s, 1, Len(s) - 1)), DigitValue(s[Len(s)]))

\* int(token) for a token without whitespace: None for ValueError, else the
\* sign and the magnitude (Python ints are unbounded)
int(token) ==
    LET signed == token # <<>> /\ Head(token) \in {"+", "-"}
        body == IF signed THEN Tail(token) ELSE token
    IN  IF DecimalBody(body, FALSE)
            THEN Some([negative |-> signed /\ Head(token) = "-" /\ DecimalValue(body) # <<>>,
                       magnitude |-> DecimalValue(body)])
            ELSE None

\* the value of an integer token taken whatever its sign
positive_int_NoSignTest(token) ==
    IF IsNone(int(token)) THEN None ELSE Some(Val(int(token)).magnitude)

\* int(token) followed by the test `<= 0`: the positive value, or None for
\* ValueError
positive_int(token) ==
    IF IsNone(int(token)) \/ Val(int(token)).negative \/ Val(int(token)).magnitude = <<>>
        THEN None
        ELSE Some(Val(int(token)).magnitude)

\* ------------------------------------------------------------------- dates
\* datetime values: [year, month, day, hour, minute, second]
IsLeapYear(year) == (year % 4 = 0 /\ year % 100 # 0) \/ year % 400 = 0

DaysInMonth(year, month) ==
    CASE month \in {1, 3, 5, 7, 8, 10, 12} -> 31
      [] month \in {4, 6, 9, 11} -> 30
      [] OTHER -> IF IsLeapYear(year) THEN 29 ELSE 28

\* a %m or %d directive: one or two decimal digits that spell a number of 1..most
Directive(s, most) ==
    IF Len(s) \in {1, 2} /\ (\A i \in 1..Len(s) : s[i] \in Digits)
            /\ FromWide(DecimalValue(s)) \in 1..most
        THEN Some(FromWide(DecimalValue(s)))
        ELSE None

\* the place of the first "/" of s, 0 when it has none
RECURSIVE SlashAt(_, _)
SlashAt(s, i) == IF i > Len(s) THEN 0 ELSE IF s[i] = "/" THEN i ELSE SlashAt(s, i + 1)

\* datetime.strptime(date_text, "%m/%d"): the month and day, or None for
\* ValueError. A format without a year yields a date of the year 1900.
strptime_md(date_text, slash) ==
    IF slash = 0 \/ IsNone(Directive(SubSeq(date_text, 1, slash - 1), 12))
            \/ IsNone(Directive(DropFirst(date_text, slash), 31))
        THEN None
    ELSE IF Val(Directive(DropFirst(date_text, slash), 31))
                > DaysInMonth(1900, Val(Directive(SubSeq(date_text, 1, slash - 1), 12)))
        THEN None
    ELSE Some([month |-> Val(Directive(SubSeq(date_text, 1, slash - 1), 12)),
               day |-> Val(Directive(DropFirst(date_text, slash), 31))])

\* datetime(year=now.year, month=parsed.month, day=parsed.day, hour=now.hour, ...)
DateOfYear(parsed, now) ==
    IF IsNone(parsed) \/ Val(parsed).day > DaysInMonth(now.year, Val(parsed).month)
        THEN None
        ELSE Some([year |-> now.year, month |-> Val(parsed).month, day |-> Val(parsed).day,
                   hour |-> now.hour, minute |-> now.minute, second |-> now.second])

\* parse_mmdd_date of parse_record_message: the datetime, or None for ValueError
parse_mmdd_date(date_text, now) ==
    DateOfYear(strptime_md(date_text, SlashAt(date_text, 1)), now)

\* parse_mmdd_date_input, the copy parse_modify_command calls
parse_mmdd_date_input(date_text, now) ==
    DateOfYear(strptime_md(date_text, SlashAt(date_text, 1)), now)

\* ------------------------------------------------------------ command words
CommandPrefix == <<"@", "ji4", "zhang4">>
ExpenseWords ==
    {<<"zhi1", "chu1">>, <<"e", "x", "p", "e", "n", "s", "e">>,
     <<"E", "x", "p", "e", "n", "s", "e">>, <<"E", "X", "P", "E", "N", "S", "E">>}
IncomeWords ==
    {<<"shou1", "ru4">>, <<"i", "n", "c", "o", "m", "e">>,
     <<"I", "n", "c", "o", "m", "e">>, <<"I", "N", "C", "O", "M", "E">>}
BankWord == <<"yin2", "hang2">>
DeleteWord == <<"shan1", "chu2">>
ModifyWord == <<"xiu1", "gai3">>
UpdateWord == <<"geng1", "xin1">>
MemberWord == <<"cheng2", "yuan2">>
command_keywords ==
    {DeleteWord, DeleteWord \o MemberWord, ModifyWord,
     <<"xin1", "zeng1">> \o MemberWord, <<"bu3", "kuan3">>, <<"cha2", "xun2">>,
     <<"zong3", "lan3">>, <<"suan4", "qian2">>, MemberWord \o <<"jian3", "cha2">>,
     MemberWord, <<"yu2", "e2">>, <<"cha2", "yu2", "e2">>,
     <<"fan4", "wei2", "cha2", "xun2">>, <<"xiang2", "xi4", "cha2", "xun2">>,
     <<"ming2", "xi4">>, <<"xiang2", "xi4">>, <<"ge2", "shi4">>}

\* normalize_record_type / normalize_record_type_input: the stored type
\* ("expense" for zhi1 chu1, "income" for shou1 ru4), or None for ValueError
normalize_record_type(type_input) ==
    IF type_input \in ExpenseWords THEN Some("expense")
    ELSE IF type_input \in IncomeWords THEN Some("income")
    ELSE None

\* the member names the texts spell
Spelling(name) ==
    IF name = "Amy" THEN <<"A", "m", "y">>
    ELSE IF name = "@Amy" THEN <<"@", "A", "m", "y">>
    ELSE <<"B", "o", "b">>

\* normalize_manual_member_name on the characters of a field: the name, or None
\* for ValueError
normalize_member_text(name_text) ==
    LET member_name == IF startswith(strip(name_text), <<"@">>)
                           THEN strip(Tail(strip(name_text)))
                           ELSE strip(name_text)
    IN  IF member_name = <<>> \/ Len(member_name) > 30
            THEN None
            ELSE Some(CHOOSE n \in MemberNames : Spelling(n) = member_name)

\* -------------------------------------------------------------- the parsers
\* what a parser gives: no command of its kind (None), ValueError, or a command
NoCommand == [status |-> "none"]
ParseError == [status |-> "error"]

\* try normalize_record_type, and on ValueError the date parser
TypeOrDate(option, now) ==
    IF ~IsNone(normalize_record_type(option))
        THEN [status |-> "ok", record_type |-> normalize_record_type(option),
              record_datetime |-> None]
    ELSE IF ~IsNone(parse_mmdd_date(option, now))
        THEN [status |-> "ok", record_type |-> None,
              record_datetime |-> parse_mmdd_date(option, now)]
    ELSE ParseError

\* a type and a date taken in either order
TypeAndDate_EitherOrder(options, now) ==
    IF Len(options) > 2 THEN ParseError
    ELSE IF Len(options) = 0
        THEN [status |-> "ok", record_type |-> None, record_datetime |-> None]
    ELSE IF Len(options) = 1 THEN TypeOrDate(options[1], now)
    ELSE IF ~IsNone(normalize_record_type(options[1])) /\ ~IsNone(parse_mmdd_date(options[2], now))
        THEN [status |-> "ok", record_type |-> normalize_record_type(options[1]),
              record_datetime |-> parse_mmdd_date(options[2], now)]
    ELSE IF ~IsNone(normalize_record_type(options[2])) /\ ~IsNone(parse_mmdd_date(options[1], now))
        THEN [status |-> "ok", record_type |-> normalize_record_type(options[2]),
              record_datetime |-> parse_mmdd_date(options[1], now)]
    ELSE ParseError

\* the optional type and date fields: none, one of either kind, or type then date
TypeAndDate(options, now) ==
    IF Len(options) > 2 THEN ParseError
    ELSE IF Len(options) = 0
        THEN [status |-> "ok", record_type |-> None, record_datetime |-> None]
    ELSE IF Len(options) = 1 THEN TypeOrDate(options[1], now)
    ELSE IF IsNone(normalize_record_type(options[1])) \/ IsNone(parse_mmdd_date(options[2], now))
        THEN ParseError
    ELSE [status |-> "ok", record_type |-> normalize_record_type(options[1]),
          record_datetime |-> parse_mmdd_date(options[2], now)]

IsTargetField(field) == startswith(field, <<"@">>)
IsNoTargetField(field) == ~startswith(field, <<"@">>)

\* parse_record_message, lines 442-493: one line's fields
RecordOfFields(item, amount_text, targets, options, now) ==
    IF item \in command_keywords \/ Len(targets) > 1 THEN ParseError
    ELSE IF Len(targets) = 1 /\ IsNone(normalize_member_text(targets[1])) THEN ParseError
    ELSE IF TypeAndDate(options, now).status = "error" THEN ParseError
    ELSE IF IsNone(positive_int(amount_text)) THEN ParseError
    ELSE [status |-> "ok",
          item |-> item,
          amount |-> Val(positive_int(amount_text)),
          record_type |->
              IF ~IsNone(TypeAndDate(options, now).record_type)
                  THEN Val(TypeAndDate(options, now).record_type)
              ELSE IF Contains(item, BankWord) THEN "income" ELSE "expense",
          record_datetime |->
              IF ~IsNone(TypeAndDate(options, now).record_datetime)
                  THEN Val(TypeAndDate(options, now).record_datetime)
                  ELSE now,
          target_member_name |->
              IF Len(targets) = 1 THEN normalize_member_text(targets[1]) ELSE None]

\* parse_record_message, lines 430-440: one line
RecordOfLine(line, fields, now) ==
    IF ~startswith(line, CommandPrefix) \/ Len(fields) < 2 \/ Len(fields) > 5
        THEN ParseError
        ELSE RecordOfFields(fields[1], fields[2],
                            SelectSeq(DropFirst(fields, 2), IsTargetField),
                            SelectSeq(DropFirst(fields, 2), IsNoTargetField), now)

RecordsOfLines(lines, now) ==
    [i \in 1..Len(lines) |->
        RecordOfLine(lines[i], SplitFields(strip(DropFirst(lines[i], Len(CommandPrefix)))), now)]

parse_record_message(text, now) ==
    IF NonBlankLines(text) = <<>> \/ ~startswith(NonBlankLines(text)[1], CommandPrefix)
        THEN NoCommand
    ELSE IF \E i \in 1..Len(NonBlankLines(text)) :
                RecordsOfLines(NonBlankLines(text), now)[i].status = "error"
        THEN ParseError
    ELSE [status |-> "ok", parsed_records |-> RecordsOfLines(NonBlankLines(text), now)]

\* keyword_map of parse_modify_command
keyword_map ==
    [w \in {<<"xiang4", "mu4">>, <<"jin1", "e2">>, <<"ri4", "qi1">>, <<"shou1", "zhi1">>,
            <<"lei4", "xing2">>} |->
        CASE w = <<"xiang4", "mu4">> -> "item"
          [] w = <<"jin1", "e2">> -> "amount"
          [] w = <<"ri4", "qi1">> -> "date"
          [] OTHER -> "record_type"]

\* parse_modify_command, lines 574-602: the pairs of the keyword form
RECURSIVE ModifyPairs(_, _, _)
ModifyPairs(pairs, modify_data, now) ==
    IF pairs = <<>> THEN modify_data
    ELSE IF pairs[1] \notin DOMAIN keyword_map THEN ParseError
    ELSE IF keyword_map[pairs[1]] = "item"
        THEN ModifyPairs(DropFirst(pairs, 2), [modify_data EXCEPT !.item = Some(pairs[2])], now)
    ELSE IF keyword_map[pairs[1]] = "amount"
        THEN IF IsNone(positive_int(pairs[2])) THEN ParseError
             ELSE ModifyPairs(DropFirst(pairs, 2),
                              [modify_data EXCEPT !.amount = positive_int(pairs[2])], now)
    ELSE IF keyword_map[pairs[1]] = "date"
        THEN IF IsNone(parse_mmdd_date_input(pairs[2], now)) THEN ParseError
             ELSE ModifyPairs(DropFirst(pairs, 2),
                              [modify_data EXCEPT !.record_datetime =
                                   parse_mmdd_date_input(pairs[2], now)], now)
    ELSE IF IsNone(normalize_record_type(pairs[2])) THEN ParseError
    ELSE ModifyPairs(DropFirst(pairs, 2),
                     [modify_data EXCEPT !.record_type = normalize_record_type(pairs[2])], now)

ModifyData(record_id, item, amount, record_type, record_datetime) ==
    [status |-> "ok", record_id |-> record_id, item |-> item, amount |-> amount,
     record_type |-> record_type, record_datetime |-> record_datetime]

\* parse_modify_command, lines 562-661: the fields after the id
ModifyOfFields(record_id, remaining_parts, parts, now) ==
    IF remaining_parts = <<>> THEN ParseError
    ELSE IF Len(remaining_parts) >= 2 /\ remaining_parts[1] \in DOMAIN keyword_map
        THEN IF Len(remaining_parts) % 2 # 0 THEN ParseError
             ELSE ModifyPairs(remaining_parts, ModifyData(record_id, None, None, None, None), now)
    ELSE IF Len(remaining_parts) = 1
        THEN IF TypeOrDate(remaining_parts[1], now).status = "error" THEN ParseError
             ELSE ModifyData(record_id, None, None,
                             TypeOrDate(remaining_parts[1], now).record_type,
                             TypeOrDate(remaining_parts[1], now).record_datetime)
    ELSE IF Len(parts) < 5 \/ IsNone(positive_int(remaining_parts[2])) THEN ParseError
    ELSE IF TypeAndDate(DropFirst(remaining_parts, 2), now).status = "error" THEN ParseError
    ELSE ModifyData(record_id, Some(remaining_parts[1]), positive_int(remaining_parts[2]),
                    TypeAndDate(DropFirst(remaining_parts, 2), now).record_type,
                    TypeAndDate(DropFirst(remaining_parts, 2), now).record_datetime)

ModifyOfParts(parts, now) ==
    IF Len(parts) < 2 \/ parts[1] # CommandPrefix \/ parts[2] # ModifyWord THEN NoCommand
    ELSE IF Len(parts) < 3 \/ IsNone(positive_int(parts[3])) THEN ParseError
    ELSE IF Len(parts) > 3 /\ parts[4] = UpdateWord
        THEN ModifyOfFields(Val(positive_int(parts[3])), DropFirst(parts, 4), parts, now)
    ELSE ModifyOfFields(Val(positive_int(parts[3])), DropFirst(parts, 3), parts, now)

parse_modify_command(text, now) == ModifyOfParts(SplitFields(strip(text)), now)

DeleteOfParts(parts) ==
    IF Len(parts) # 3 \/ parts[1] # CommandPrefix \/ parts[2] # DeleteWord THEN NoCommand
    ELSE IF IsNone(positive_int(parts[3])) THEN ParseError
    ELSE [status |-> "ok", record_id |-> Val(positive_int(parts[3]))]

parse_delete_command(text) == DeleteOfParts(SplitFields(strip(text)))

\* ------------------------------------------------- handle_message on a text
\* sqlite3 binds a Python int to an INTEGER parameter only if it fits 64 bits
\* signed; a wider one raises OverflowError, which handle_message does not catch
SqliteIntegerBits == 63
Binds(value) == \E bound \in {value} : BitLen(bound) <= SqliteIntegerBits

\* an exception leaves handle_message: what was committed stays, nothing is replied
Raise(st) == Outcome(st, <<>>)

confirm_texts ==
    {<<"que4", "ding4">>, <<"que4", "ren4">>, <<"o", "k">>, <<"O", "K">>, <<"O", "k">>,
     <<"hao3">>}
help_texts ==
    {CommandPrefix, CommandPrefix \o <<"ge2", "shi4">>, CommandPrefix \o <<" ", "ge2", "shi4">>}

\* the words by which the member, payment and query commands are told
OtherCommandWords ==
    (command_keywords \ {DeleteWord, ModifyWord, <<"ge2", "shi4">>})
        \cup {<<"fen1", "zhang4">>, <<"zhuang4", "tai4">>, <<"s", "t", "a", "t", "u", "s">>,
              <<"S", "T", "A", "T", "U", "S">>}

\* parse_add_member_command, parse_delete_member_command,
\* parse_settlement_payment_command and parse_query_command all return None to
\* a text whose second field is none of their words
NoOtherCommand(parts) ==
    ~(Len(parts) >= 2 /\ parts[1] = CommandPrefix /\ parts[2] \in OtherCommandWords)

ErrorReply(st) == Outcome(st, <<Reply("error", 0, <<>>)>>)

\* an event of the text level, as the event the handlers above take
ParsedEvent(e, msg) == Event(e.chat_id, e.user_id, to_db_created_at(e.now), msg)

\* handle_message, lines 2120-2134, on the id parse_delete_command gave
HandleDeleteText(st, e, delete_record_id) ==
    IF ~Binds(Trim(WideSub(delete_record_id, ToWide(1)))) THEN Raise(st)
    ELSE HandleDelete(st,
                      ParsedEvent(e, [kind |-> "delete", record_id |-> FromWide(delete_record_id)]),
                      to_db_created_at(e.now))

StoredOpt(value) == IF IsNone(value) \/ ~Binds(Val(value)) THEN None ELSE Some(FromWide(Val(value)))
StampOpt(value) == IF IsNone(value) THEN None ELSE Some(to_db_created_at(Val(value)))

\* handle_message, lines 2142-2192, on the command parse_modify_command gave
HandleModifyText(st, e, modify_command) ==
    IF ~Binds(Trim(WideSub(modify_command.record_id, ToWide(1)))) THEN Raise(st)
    ELSE IF /\ ~IsNone(ResolveDisplayId(st, e.chat_id, FromWide(modify_command.record_id)))
            /\ ~IsNone(modify_command.amount)
            /\ ~Binds(Val(modify_command.amount))
        THEN Raise(st)
    ELSE HandleModify(st,
                      ParsedEvent(e, [kind |-> "modify",
                                      record_id |-> FromWide(modify_command.record_id),
                                      item |-> modify_command.item,
                                      amount |-> StoredOpt(modify_command.amount),
                                      record_type |-> modify_command.record_type,
                                      record_datetime |->
                                          StampOpt(modify_command.record_datetime)]),
                      to_db_created_at(e.now))

\* one parsed line as SaveLine takes it
LineOf(parsed_record) ==
    [item |-> parsed_record.item, amount |-> FromWide(parsed_record.amount),
     record_type |-> parsed_record.record_type,
     record_datetime |-> to_db_created_at(parsed_record.record_datetime),
     target_member_name |-> parsed_record.target_member_name]

\* handle_message, lines 2230-2263: each line saved and committed in turn
RECURSIVE SaveParsed(_, _, _, _)
SaveParsed(st, e, parsed, count) ==
    IF parsed = <<>> THEN Outcome(st, <<Reply("recorded", count, <<>>)>>)
    ELSE IF ~Binds(Head(parsed).amount)
        THEN Raise(IF IsNone(Head(parsed).target_member_name) THEN st
                   ELSE [st EXCEPT !.manual =
                            save_manual_member(st.manual, e.chat_id,
                                               Val(Head(parsed).target_member_name),
                                               to_db_created_at(e.now))])
    ELSE SaveParsed(SaveLine(st, ParsedEvent(e, [kind |-> "record"]), LineOf(Head(parsed)),
                             to_db_created_at(e.now)),
                    e, Tail(parsed), count)

\* parse_query_command, for the listing of one year: the detail word followed
\* by a token of four digits (re.fullmatch of \d{4}, parse_range_spec)
DetailWords == {<<"xiang2", "xi4", "cha2", "xun2">>, <<"ming2", "xi4">>, <<"xiang2", "xi4">>}
IsYearToken(token) == Len(token) = 4 /\ \A i \in 1..4 : token[i] \in Digits
DetailYearOfParts(parts) ==
    IF Len(parts) = 3 /\ parts[1] = CommandPrefix /\ parts[2] \in DetailWords
           /\ IsYearToken(parts[3])
        THEN [status |-> "ok", command_type |-> "detail",
              range_spec |-> [type |-> "year_exact", year |-> FromWide(Val(int(parts[3])).magnitude)]]
        ELSE NoCommand
parse_query_command(text) == DetailYearOfParts(SplitFields(strip(text)))

\* datetime(year, month, day) raises ValueError outside MINYEAR..MAXYEAR
MINYEAR == 1
MAXYEAR == 9999
StartOfYear(year) == [year |-> year, month |-> 1, day |-> 1, hour |-> 0, minute |-> 0, second |-> 0]

\* get_range_start_end for a year_exact range: None when one of its two
\* datetime constructions raises
get_range_start_end(range_spec) ==
    IF range_spec.year < MINYEAR \/ range_spec.year > MAXYEAR \/ range_spec.year + 1 > MAXYEAR
        THEN None
        ELSE Some([start |-> Some(to_db_created_at(StartOfYear(range_spec.year))),
                   end |-> Some(to_db_created_at(StartOfYear(range_spec.year + 1)))])

\* handle_message, lines 2203-2219, on the command parse_query_command gave
HandleQueryText(st, e, query_command) ==
    IF IsNone(get_range_start_end(query_command.range_spec)) THEN Raise(st)
    ELSE build_detail_text(st, e.chat_id, Val(get_range_start_end(query_command.range_spec)))

\* What the parsers make of a text read at the moment now. They are functions
\* of the text and the clock alone, so an inbound text carries their answers.
ReadText(text, now) ==
    [text |-> text, now |-> now, incoming_text |-> strip(text),
     delete_command |-> parse_delete_command(strip(text)),
     modify_command |-> parse_modify_command(strip(text), now),
     query_command |-> parse_query_command(strip(text)),
     parsed |-> parse_record_message(strip(text), now)]

\* handle_message, lines 2221-2263
RouteRecordText(st, e) ==
    IF e.parsed.status = "error" THEN ErrorReply(st)
    ELSE IF e.parsed.status = "none" THEN Outcome(st, <<>>)
    ELSE SaveParsed(st, e, e.parsed.parsed_records, Len(e.parsed.parsed_records))

\* handle_message, lines 2194-2219 and on
RouteQueryText(st, e) ==
    IF e.query_command.status = "ok" THEN HandleQueryText(st, e, e.query_command)
    ELSE RouteRecordText(st, e)

\* handle_message, lines 2136-2192 and on
RouteModifyText(st, e) ==
    IF e.modify_command.status = "error" THEN ErrorReply(st)
    ELSE IF e.modify_command.status = "ok" THEN HandleModifyText(st, e, e.modify_command)
    ELSE RouteQueryText(st, e)

\* handle_message, lines 2114-2134 and on
RouteDeleteText(st, e) ==
    IF e.delete_command.status = "error" THEN ErrorReply(st)
    ELSE IF e.delete_command.status = "ok"
        THEN HandleDeleteText(st, e, e.delete_command.record_id)
    ELSE RouteModifyText(st, e)

\* handle_message, lines 2024-2032 and on
RouteText(st, e) ==
    IF ~startswith(e.incoming_text, CommandPrefix) THEN Outcome(st, <<>>)
    ELSE IF e.incoming_text \in help_texts THEN Outcome(st, <<Reply("help", 0, <<>>)>>)
    ELSE RouteDeleteText(st, e)

\* handle_message, on the text of the event
handle_message_text(st, e) ==
    IF e.chat_id \in DOMAIN st.pending
        THEN IF e.incoming_text \in confirm_texts
                 THEN ConfirmDelete(st, e, to_db_created_at(e.now))
                 ELSE RouteText([st EXCEPT !.pending = DictPop(st.pending, e.chat_id)], e)
        ELSE RouteText(st, e)

\* ------------------------------------------------ the text-level machine
\* the texts sent: fields joined by a separator after the command prefix
RECURSIVE JoinFields(_, _)
JoinFields(fields, separator) ==
    IF fields = <<>> THEN <<>>
    ELSE IF Len(fields) = 1 THEN fields[1]
    ELSE fields[1] \o separator \o JoinFields(Tail(fields), separator)

CommandLine(fields, separator) == CommandPrefix \o <<" ">> \o JoinFields(fields, separator)

IncomeWord == <<"shou1", "ru4">>
\* an amount of twenty digits, wider than 64 bits
WideAmountToken == [i \in 1..20 |-> "9"]
PositiveAmountTokens == {<<"5">>, <<"+", "7">>, WideAmountToken}
\* zero, negative, and no integer
BadAmountTokens == {<<"0">>, <<"-", "5">>, <<"1", ".", "5">>}
AmountTokens == PositiveAmountTokens \cup BadAmountTokens
ItemTokens == {<<"a">>, BankWord \o <<"x">>}
\* month/day tokens: valid dates, the leap day, and no date of any year
DateTokens ==
    {<<"2", "/", "7">>, <<"0", "2", "/", "2", "9">>, <<"0", "2", "/", "3", "0">>,
     <<"1", "3", "/", "0", "1">>}
TargetTokens == {<<"@">> \o Spelling(n) : n \in ManualNames}

\* the optional fields of a record line
OptionFields ==
    {<<>>, <<IncomeWord>>, <<IncomeWord, <<"2", "/", "7">>>>, <<<<"f", "o", "o">>>>,
     <<<<"2", "/", "7">>, IncomeWord>>,
     <<<<"zhi1", "chu1">>, <<"0", "2", "/", "3", "0">>>>,
     <<IncomeWord, <<"2", "/", "7">>, IncomeWord>>,
     <<IncomeWord, <<"@">> \o Spelling("Amy"), <<"2", "/", "7">>>>}
        \cup {<<d>> : d \in DateTokens} \cup {<<t>> : t \in TargetTokens}

RecordFields ==
    {<<<<"a">>, a>> : a \in AmountTokens}
        \cup {<<<<"a">>, <<"5">>>> \o o : o \in OptionFields}
        \cup {<<BankWord \o <<"x">>, <<"5">>>>, <<<<"a">>>>,
              <<BankWord \o <<"x">>, <<"5">>, <<"zhi1", "chu1">>>>}

\* the lines a batch is made of
BatchLines ==
    {CommandLine(<<<<"a">>, a>>, <<" ">>) : a \in {<<"5">>, <<"0">>, WideAmountToken}}
        \cup {CommandLine(<<BankWord, <<"5">>, <<"@">> \o Spelling("Amy")>>, <<",">>),
              CommandLine(<<DeleteWord, <<"5">>>>, <<" ">>),
              CommandLine(<<<<"fen1", "zhang4">>, <<"5">>>>, <<" ">>),
              CommandLine(<<<<"zhuang4", "tai4">>, <<"5">>>>, <<" ">>),
              CommandLine(<<UpdateWord, <<"5">>>>, <<" ">>),
              CommandLine(<<<<"a">>>>, <<" ">>),
              CommandLine(<<<<"a">>, <<"5">>, <<"f", "o", "o">>>>, <<" ">>),
              CommandLine(<<<<"a">>, <<"5">>, <<"1", "3", "/", "0", "1">>>>, <<" ">>),
              CommandLine(<<<<"a">>, <<"5">>, IncomeWord, <<"2", "/", "7">>>>, <<" ">>),
              <<"a", " ", "5">>}

RecordTexts ==
    {CommandLine(f, <<" ">>) : f \in RecordFields}
        \cup {CommandLine(<<<<"a">>, <<"5">>, IncomeWord>>, <<"fwcomma", " ">>)}
        \cup {l1 \o <<"NL">> \o l2 :
                l1 \in {l \in BatchLines : startswith(l, CommandPrefix \o <<" ", "a">>)},
                l2 \in BatchLines}
        \cup {CommandLine(<<BankWord, <<"5">>, <<"@">> \o Spelling("Amy")>>, <<",">>)
                  \o <<"NL", " ", "NL">> \o CommandLine(<<<<"a">>, a>>, <<" ">>) :
                a \in {<<"5">>, WideAmountToken}}

IdTokens == {<<"1">>, <<"2">>, WideAmountToken}

\* the fields of a modify command after its id
ModifyFields ==
    {<<IncomeWord>>, <<<<"e", "x", "p", "e", "n", "s", "e">>>>, <<<<"f", "o", "o">>>>}
        \cup {<<d>> : d \in DateTokens}
        \cup {<<<<"b">>, a>> : a \in AmountTokens}
        \cup {<<<<"b">>, <<"+", "7">>, IncomeWord, <<"2", "/", "7">>>>,
              <<UpdateWord, <<"b">>, <<"+", "7">>>>,
              <<<<"xiang4", "mu4">>, <<"b">>>>,
              <<<<"ri4", "qi1">>, <<"2", "/", "7">>>>,
              <<<<"lei4", "xing2">>, IncomeWord, <<"jin1", "e2">>, <<"+", "7">>>>,
              <<<<"xiang4", "mu4">>, <<"b">>, <<"f", "o", "o">>, <<"b">>>>,
              <<<<"xiang4", "mu4">>, <<"b">>, <<"jin1", "e2">>>>}
        \cup {<<<<"jin1", "e2">>, a>> : a \in AmountTokens}

ModifyTexts ==
    {CommandLine(<<ModifyWord, <<"1">>>> \o f, <<" ">>) : f \in ModifyFields}
        \cup {CommandLine(<<ModifyWord, id, IncomeWord>>, <<" ">>) :
                id \in IdTokens \cup {<<"0">>}}
        \cup {CommandLine(<<ModifyWord, <<"2">>, <<"b">>, <<"+", "7">>>>, <<" ">>),
              CommandLine(<<ModifyWord, <<"1">>>>, <<" ">>)}

DeleteTexts ==
    {CommandLine(<<DeleteWord, id>>, <<" ">>) : id \in IdTokens \cup {<<"0">>, <<"x">>}}

\* listings of a year: the year of the clock, the last year and the year zero
YearTokens == {<<"2", "0", "2", "4">>, <<"9", "9", "9", "9">>, <<"0", "0", "0", "0">>}
QueryTexts == {CommandLine(<<<<"ming2", "xi4">>, y>>, <<" ">>) : y \in YearTokens}

PlainTexts == confirm_texts \cup {<<"o", "K">>, <<" ", "o", "k", "NL">>, <<"a", " ", "5">>}

\* the clock: a moment of a leap year
ParseClock ==
    {[year |-> 2024, month |-> 2, day |-> 28, hour |-> 10, minute |-> 11, second |-> 12]}

\* the inbound texts, by the branch of handle_message that takes them
Inbound(texts) == {ReadText(text, now) : text \in texts, now \in ParseClock}
PlainInbound == Inbound(PlainTexts)
HelpInbound == Inbound(help_texts)
DeleteInbound == Inbound(DeleteTexts)
ModifyInbound == Inbound(ModifyTexts)
QueryInbound == Inbound(QueryTexts)
RecordInbound == Inbound(RecordTexts)

TextEvent(chat_id, user_id, inbound) ==
    [chat_id |-> chat_id, user_id |-> user_id, now |-> inbound.now, text |-> inbound.text,
     incoming_text |-> inbound.incoming_text, delete_command |-> inbound.delete_command,
     modify_command |-> inbound.modify_command, query_command |-> inbound.query_command,
     parsed |-> inbound.parsed]

TextChatUsers == {p \in ChatUsers : p[1] = "group:G"}

\* The clock does not run backwards.
TextEventsOf(st, inbound) ==
    {TextEvent(p[1], p[2], i) : p \in TextChatUsers,
        i \in {j \in inbound : \A m \in st.manual : m.created_at <= to_db_created_at(j.now)}}

\* the rows a text would add: one for each parsed line
LineCount(e) == IF e.parsed.status = "ok" THEN Len(e.parsed.parsed_records) ELSE 0

RecordTextEvents(st) ==
    {e \in TextEventsOf(st, RecordInbound) : RowsWritten(st) + LineCount(e) <= MaxRows}

TextEvents(st) ==
    TextEventsOf(st, PlainInbound \cup HelpInbound \cup DeleteInbound \cup ModifyInbound
                         \cup QueryInbound)
        \cup RecordTextEvents(st)

\* One inbound text handled from start to end.
DeliverText(e) ==
    /\ ~(e.query_command.status = "none" /\ ~NoOtherCommand(SplitFields(e.incoming_text)))
    /\ \E out \in {handle_message_text(Store, e)} :
        /\ records' = out.st.records
        /\ next_id' = out.st.next_id
        /\ PENDING_DELETE' = out.st.pending
        /\ LAST_DETAIL_VIEW' = out.st.detail
        /\ manual_members' = out.st.manual
        /\ settlement_payments' = out.st.payments
        /\ UNCHANGED calc

PlainText == \E e \in TextEventsOf(Store, PlainInbound) : ~startswith(e.incoming_text, CommandPrefix) /\ DeliverText(e)
HelpText == \E e \in TextEventsOf(Store, HelpInbound) : e.incoming_text \in help_texts /\ DeliverText(e)
DeleteText == \E e \in TextEventsOf(Store, DeleteInbound) : e.delete_command.status # "none" /\ DeliverText(e)
ModifyText == \E e \in TextEventsOf(Store, ModifyInbound) : e.modify_command.status # "none" /\ DeliverText(e)
QueryText == \E e \in TextEventsOf(Store, QueryInbound) : e.query_command.status # "none" /\ DeliverText(e)
RecordText == \E e \in RecordTextEvents(Store) : e.parsed.status # "none" /\ DeliverText(e)

NextParse ==
    \/ PlainText
    \/ HelpText
    \/ DeleteText
    \/ ModifyText
    \/ QueryText
    \/ RecordText

SpecParse == Init /\ [][NextParse]_vars


\* ===================================================== text-level properties
\* the new-record and modify texts whose amount is zero, negative or no integer
BadAmountTexts ==
    {CommandLine(<<<<"a">>, a>>, <<" ">>) : a \in BadAmountTokens}
        \cup {l1 \o <<"NL">> \o l2 : l1 \in BatchLines, l2 \in {CommandLine(<<<<"a">>, <<"0">>>>, <<" ">>)}}
        \cup {l1 \o <<"NL">> \o l2 : l1 \in {CommandLine(<<<<"a">>, <<"0">>>>, <<" ">>)}, l2 \in BatchLines}
        \cup {CommandLine(<<ModifyWord, <<"1">>, <<"b">>, a>>, <<" ">>) : a \in BadAmountTokens}
        \cup {CommandLine(<<ModifyWord, <<"1">>, <<"jin1", "e2">>, a>>, <<" ">>) : a \in BadAmountTokens}

\* the text is answered with an error and the ledger is as it was
FailsUnchanged(st, e) ==
    \E out \in {handle_message_text(st, e)} :
        /\ Len(out.replies) = 1
        /\ out.replies[1].kind = "error"
        /\ out.st.records = st.records

\* C14: every stored record has a positive amount and the type expense or
\* income; a new-record or modify text whose amount is zero, negative or not an
\* integer is answered with an error and leaves the ledger unchanged.
C14_AmountsPositiveTypesKnown ==
    /\ \A r \in records : r.amount > 0 /\ r.record_type \in {"expense", "income"}
    /\ \A e \in TextEvents(Store) : e.text \in BadAmountTexts => FailsUnchanged(Store, e)

\* a ledger that new-record and modify texts have written: a row recorded as an
\* expense of 5 and a row whose amount a modify set to 7, with bad-amount texts
\* at hand
C14_Witness ==
    /\ \E r \in records : r.amount = 5 /\ r.record_type = "expense"
    /\ \E r \in records : r.amount = 7 /\ r.item = <<"b">>
    /\ \E e \in TextEvents(Store) : e.text \in BadAmountTexts


\* ------------------------------------------------- conversation ownership
\* what the stored state holds for one conversation
OwnedBy(st, chat_id) ==
    [records |-> ChatRecords(st.records, chat_id),
     pending |-> IF chat_id \in DOMAIN st.pending THEN Some(st.pending[chat_id]) ELSE None,
     detail |-> IF chat_id \in DOMAIN st.detail THEN Some(st.detail[chat_id]) ELSE None,
     manual |-> {m \in st.manual : m.chat_id = chat_id},
     payments |-> SelectSeq(st.payments, LAMBDA p : p.chat_id = chat_id)]

\* the stored state with everything of the other conversations taken away
WithoutOthers(st, chat_id) ==
    [st EXCEPT !.records = ChatRecords(st.records, chat_id),
               !.pending = [c \in (DOMAIN st.pending) \cap {chat_id} |-> st.pending[c]],
               !.detail = [c \in (DOMAIN st.detail) \cap {chat_id} |-> st.detail[c]],
               !.manual = {m \in st.manual : m.chat_id = chat_id},
               !.payments = SelectSeq(st.payments, LAMBDA p : p.chat_id = chat_id)]

\* the replies print rows of the conversation chat_id only
PrintsOnly(replies, chat_id) ==
    \A i \in 1..Len(replies) :
        \A j \in 1..Len(replies[i].rows) : replies[i].rows[j].chat_id = chat_id

\* C15: whatever event arrives in conversation A, in whatever state, every other
\* conversation B keeps its records, its pending-delete slot, its detail-view
\* cache, its manual members and its settlement payments; the replies print rows
\* of A only, and the replies and what A holds afterwards are the same as if
\* nothing of B had been stored at all.
C15_OtherConversationsUntouched ==
    \A e \in Events(Store) :
        \E out \in {handle_message(Store, e)} :
            /\ \A b \in Chats \ {e.chat_id} : OwnedBy(out.st, b) = OwnedBy(Store, b)
            /\ PrintsOnly(out.replies, e.chat_id)
            /\ \E alone \in {handle_message(WithoutOthers(Store, e.chat_id), e)} :
                  /\ alone.replies = out.replies
                  /\ OwnedBy(alone.st, e.chat_id) = OwnedBy(out.st, e.chat_id)

\* Both conversations hold a record, the other one has its slot armed and a
\* listing cached, and an event of the first is about to change the first's records.
C15_Witness ==
    \E a \in Chats : \E b \in Chats \ {a} :
        /\ ChatRecords(records, a) # {}
        /\ ChatRecords(records, b) # {}
        /\ b \in DOMAIN PENDING_DELETE
        /\ b \in DOMAIN LAST_DETAIL_VIEW
        /\ \E e \in Events(Store) :
              /\ e.chat_id = a
              /\ ChatRecords(handle_message(Store, e).st.records, a) # ChatRecords(records, a)


\* ------------------------------------------------------------ batch input
\* the new-record texts of two or more non-blank lines
BatchTexts == {text \in RecordTexts : Len(NonBlankLines(text)) >= 2}

\* the lines the claim calls invalid, by the way they were put together: no
\* prefix, one field, a reserved first field, a zero amount, an unknown type
\* word, a date of no year
InvalidLines ==
    {<<"a", " ", "5">>,
     CommandLine(<<<<"a">>>>, <<" ">>),
     CommandLine(<<DeleteWord, <<"5">>>>, <<" ">>),
     CommandLine(<<<<"a">>, <<"0">>>>, <<" ">>),
     CommandLine(<<<<"a">>, <<"5">>, <<"f", "o", "o">>>>, <<" ">>),
     CommandLine(<<<<"a">>, <<"5">>, <<"1", "3", "/", "0", "1">>>>, <<" ">>)}

HasInvalidLine(text) == \E i \in 1..Len(NonBlankLines(text)) : NonBlankLines(text)[i] \in InvalidLines
InvalidBatchTexts == {text \in BatchTexts : HasInvalidLine(text)}
ValidBatchTexts == BatchTexts \ InvalidBatchTexts

\* the rows the parsed lines of event e are to become when the ledger is st
RowsOfBatch(st, e) ==
    {[id |-> st.next_id + k - 1,
      user_id |-> IF IsNone(e.parsed.parsed_records[k].target_member_name) THEN e.user_id
                  ELSE ManualId(Val(e.parsed.parsed_records[k].target_member_name)),
      chat_id |-> e.chat_id,
      item |-> e.parsed.parsed_records[k].item,
      amount |-> FromWide(e.parsed.parsed_records[k].amount),
      record_type |-> e.parsed.parsed_records[k].record_type,
      created_at |-> to_db_created_at(e.parsed.parsed_records[k].record_datetime)] :
        k \in 1..Len(e.parsed.parsed_records)}

\* the batch is refused whole: one error reply, no row and no member written
BatchRefused(st, e) ==
    \E out \in {handle_message_text(st, e)} :
        /\ Len(out.replies) = 1
        /\ out.replies[1].kind = "error"
        /\ out.st.records = st.records
        /\ out.st.next_id = st.next_id
        /\ out.st.manual = st.manual

\* the batch is taken whole: one row for each non-blank line, each with the
\* type, date and target of its own line
BatchInserted(st, e) ==
    \E out \in {handle_message_text(st, e)} :
        /\ e.parsed.status = "ok"
        /\ Len(e.parsed.parsed_records) = Len(NonBlankLines(e.text))
        /\ Cardinality(out.st.records) = Cardinality(st.records) + Len(NonBlankLines(e.text))
        /\ out.st.records = st.records \cup RowsOfBatch(st, e)

AmountsBind(e) ==
    e.parsed.status = "ok" =>
        \A k \in 1..Len(e.parsed.parsed_records) : Binds(e.parsed.parsed_records[k].amount)

\* C16: a multi-line new-record text with a line that fails validation is
\* answered with an error and inserts no record of any line; a multi-line text
\* whose lines are all valid inserts exactly one record for each non-blank line,
\* each with the type, date and target resolved for its own line.
C16_BatchAllOrNothing ==
    \A e \in RecordTextEvents(Store) :
        /\ e.text \in InvalidBatchTexts => BatchRefused(Store, e)
        /\ e.text \in ValidBatchTexts => BatchInserted(Store, e)

\* C16 (what the code keeps): the same, for the batches whose amounts all fit
\* the INTEGER column of the store.
C16_BatchAllOrNothingWithinColumn ==
    \A e \in RecordTextEvents(Store) :
        /\ e.text \in InvalidBatchTexts => BatchRefused(Store, e)
        /\ (e.text \in ValidBatchTexts /\ AmountsBind(e)) => BatchInserted(Store, e)

\* a batch of a valid line and a line whose amount is wider than the column
\* has left its first row behind and nothing else
C16_PartialBatch ==
    /\ Cardinality(records) = 1
    /\ next_id = 2
    /\ \E r \in records : r.item = <<"a">> /\ r.amount = 5
    /\ \E e \in RecordTextEvents([Store EXCEPT !.records = {}, !.next_id = 1]) :
          /\ e.text \in ValidBatchTexts
          /\ ~AmountsBind(e)
          /\ handle_message_text([Store EXCEPT !.records = {}, !.next_id = 1], e).st = Store


\* ------------------------------------------------------ one reply per text
\* the texts with a field no store column or calendar holds: an amount or an
\* id of twenty digits, the last year and the year zero
OutOfRangeTexts ==
    {text \in DeleteTexts \cup ModifyTexts \cup RecordTexts : Contains(text, WideAmountToken)}
        \cup {CommandLine(<<<<"ming2", "xi4">>, y>>, <<" ">>) :
                y \in {<<"9", "9", "9", "9">>, <<"0", "0", "0", "0">>}}

\* the text confirms a delete that is armed
ConfirmsArmed(st, e) == e.chat_id \in DOMAIN st.pending /\ e.incoming_text \in confirm_texts

\* C17: a text that begins with the command prefix gets exactly one reply,
\* whatever its fields; a text that does not begin with the prefix and does not
\* confirm an armed delete gets none; no text gets more than one.
C17_ExactlyOneReply ==
    \A e \in TextEvents(Store) :
        \E out \in {handle_message_text(Store, e)} :
            /\ Len(out.replies) <= 1
            /\ startswith(e.incoming_text, CommandPrefix) => Len(out.replies) = 1
            /\ (~startswith(e.incoming_text, CommandPrefix) /\ ~ConfirmsArmed(Store, e))
                  => Len(out.replies) = 0

\* C17 (what the code keeps): the same, the one reply being owed only to the
\* prefixed texts whose fields are all within range.
C17_OneReplyWithinRange ==
    \A e \in TextEvents(Store) :
        \E out \in {handle_message_text(Store, e)} :
            /\ Len(out.replies) <= 1
            /\ (startswith(e.incoming_text, CommandPrefix) /\ e.text \notin OutOfRangeTexts)
                  => Len(out.replies) = 1
            /\ (~startswith(e.incoming_text, CommandPrefix) /\ ~ConfirmsArmed(Store, e))
                  => Len(out.replies) = 0
            /\ ConfirmsArmed(Store, e) => Len(out.replies) = 1

\* a ledger with a row and an armed delete, and a prefixed text at hand that
\* ends without a reply
C17_SilentText ==
    /\ records # {}
    /\ PENDING_DELETE # EmptyDict
    /\ \E e \in TextEvents(Store) :
          /\ startswith(e.incoming_text, CommandPrefix)
          /\ handle_message_text(Store, e).replies = <<>>


\* ------------------------------------------------------------------ modify
\* the modify texts that parse_modify_command accepts
ModifyCommandEvents(st) == {e \in TextEventsOf(st, ModifyInbound) : e.modify_command.status = "ok"}

\* the display id names no record of the chat: it is wider than any ledger, or
\* neither the cached listing nor the history has a record in that place
ResolvesToNone(st, chat_id, display_id) ==
    IF Binds(display_id) THEN IsNone(ResolveDisplayId(st, chat_id, FromWide(display_id)))
    ELSE TRUE

\* record r with the fields the command supplied laid over it
Overlay(r, modify_command) ==
    [r EXCEPT
        !.item = IF IsNone(modify_command.item) THEN r.item ELSE Val(modify_command.item),
        !.amount = IF IsNone(modify_command.amount) THEN r.amount
                   ELSE FromWide(Val(modify_command.amount)),
        !.record_type = IF IsNone(modify_command.record_type) THEN r.record_type
                        ELSE Val(modify_command.record_type),
        !.created_at = IF IsNone(modify_command.record_datetime) THEN r.created_at
                       ELSE to_db_created_at(Val(modify_command.record_datetime))]

\* nothing stored but the pending-delete slot, which any text that is no
\* confirmation clears, differs between st and after
NothingChanged(st, after) ==
    /\ after.records = st.records
    /\ after.next_id = st.next_id
    /\ after.detail = st.detail
    /\ after.manual = st.manual
    /\ after.payments = st.payments

RepliedNotFound(out) == Len(out.replies) = 1 /\ out.replies[1].kind = "modify_not_found"
RepliedModified(out) == Len(out.replies) = 1 /\ out.replies[1].kind = "modified"

\* the modify succeeded on the record the display id names: that record is the
\* overlay of what it was, and nothing else is changed
OverlaidOnly(st, e, out) ==
    \E old \in {Val(ResolveDisplayId(st, e.chat_id, FromWide(e.modify_command.record_id)))} :
        /\ out.st.records = (st.records \ {old}) \cup {Overlay(old, e.modify_command)}
        /\ Cardinality(out.st.records) = Cardinality(st.records)
        /\ out.replies[1].rows = Some(Overlay(old, e.modify_command))
        /\ out.st.next_id = st.next_id
        /\ out.st.detail = st.detail
        /\ out.st.manual = st.manual
        /\ out.st.payments = st.payments

\* C18: a successful modify changes only the fields the command supplied (item,
\* amount, type, date) of the record its display id names; that record's id,
\* conversation and contributor and every other record stay as they were. A
\* modify whose display id resolves to no record is answered not-found and
\* changes nothing.
C18_ModifyOverlaysSuppliedFields ==
    \A e \in ModifyCommandEvents(Store) :
        \E out \in {handle_message_text(Store, e)} :
            IF ResolvesToNone(Store, e.chat_id, e.modify_command.record_id)
                THEN RepliedNotFound(out) /\ NothingChanged(Store, out.st)
                ELSE RepliedModified(out) => OverlaidOnly(Store, e, out)

\* C18 (what the code keeps): the same, the not-found reply being owed only for
\* display ids that fit the store's integer; without a reply for the others,
\* nothing is changed all the same.
C18_ModifyOverlaysWithinColumn ==
    \A e \in ModifyCommandEvents(Store) :
        \E out \in {handle_message_text(Store, e)} :
            IF ResolvesToNone(Store, e.chat_id, e.modify_command.record_id)
                THEN /\ NothingChanged(Store, out.st)
                     /\ Binds(e.modify_command.record_id) => RepliedNotFound(out)
                ELSE /\ RepliedModified(out) => OverlaidOnly(Store, e, out)
                     /\ ~RepliedModified(out) => NothingChanged(Store, out.st)

\* a ledger whose one row a modify has set to item b and amount 7, with
\* modify texts at hand that name that row, and that name none
C18_ModifiedLedger ==
    /\ \E r \in records : r.item = <<"b">> /\ r.amount = 7
    /\ \E e \in ModifyCommandEvents(Store) :
          /\ ~ResolvesToNone(Store, e.chat_id, e.modify_command.record_id)
          /\ RepliedModified(handle_message_text(Store, e))
    /\ \E e \in ModifyCommandEvents(Store) :
          /\ Binds(e.modify_command.record_id)
          /\ ResolvesToNone(Store, e.chat_id, e.modify_command.record_id)


\* --------------------------------------------------- failed roster lookup
\* the roster lookup of the settlement under way failed
LookupFailed(c) == ~IsNone(c.input.api_error_message)

\* the member check of the same group, asked of the same store answers
MemberCheckOf(c) ==
    build_member_check_text("group:G", "U2", ~LookupFailed(c), c.input.paid_by_user_rows,
                            c.input.manual_member_names)

MemberCheckNames(c) ==
    {MemberCheckOf(c).settlement_members[i].display_name :
        i \in 1..Len(MemberCheckOf(c).settlement_members)}

\* the names of the partial roster: the payers of the range and the manual members
PartialRosterNames(c) ==
    {get_settlement_display_name(u) : u \in Payers(c)}
        \cup SeqRange(c.input.manual_member_names)

\* C19: when the roster lookup fails, the settlement and the member check are
\* both still answered from the partial roster (the payers of the range and
\* the manual members), and both replies carry the lookup failure as a line.
C19_LookupFailureSurfaced ==
    (LookupFailed(calc) /\ Settled(calc)) =>
        /\ PartialRosterNames(calc) \subseteq ParticipantNames(calc)
        /\ ~IsNone(SettlementApiErrorLine(calc))
        /\ PartialRosterNames(calc) \subseteq MemberCheckNames(calc)
        /\ MemberCheckOf(calc).api_error_line

\* C19 (what the code keeps): after a failed lookup the member check lists the
\* partial roster and carries the failure line; the settlement is computed over
\* the payers of the range, padded to three with manual members, and its reply
\* carries no failure line.
C19_MemberCheckSurfacesFailure ==
    (LookupFailed(calc) /\ Settled(calc)) =>
        /\ {get_settlement_display_name(u) : u \in Payers(calc)} \subseteq ParticipantNames(calc)
        /\ IsNone(SettlementApiErrorLine(calc))
        /\ PartialRosterNames(calc) = MemberCheckNames(calc)
        /\ MemberCheckOf(calc).api_error_line
        /\ MemberCheckOf(calc).api_member_count = 0

\* a settlement finished after a failed lookup, with payers and manual members
C19_SettledWithoutRoster ==
    /\ LookupFailed(calc)
    /\ Settled(calc)
    /\ Cardinality(Payers(calc)) >= 2
    /\ calc.input.manual_member_names # <<>>


\* ------------------------------------------------------------- MM/DD dates
\* the month/day tokens sent, with the month and the day each spells
DateMeanings ==
    {[token |-> <<"2", "/", "7">>, month |-> 2, day |-> 7],
     [token |-> <<"0", "2", "/", "2", "9">>, month |-> 2, day |-> 29],
     [token |-> <<"0", "2", "/", "3", "0">>, month |-> 2, day |-> 30],
     [token |-> <<"1", "3", "/", "0", "1">>, month |-> 13, day |-> 1]}

\* month/day is a date of the calendar of year
ValidDate(year, month, day) == month \in 1..12 /\ day \in 1..DaysInMonth(year, month)

\* the moments of parsing: the clock of the machine, in a leap year, and the
\* last second of the year before
DateClocks ==
    ParseClock \cup {[year |-> 2023, month |-> 12, day |-> 31, hour |-> 23, minute |-> 59,
                      second |-> 59]}

\* month/day of the year of now, at the time of day of now
StampOf(month, day, now) ==
    [year |-> now.year, month |-> month, day |-> day, hour |-> now.hour,
     minute |-> now.minute, second |-> now.second]

\* both copies of the parser answer the token with the stamp, or both refuse it
ParsesTo(token, now, stamp) ==
    parse_mmdd_date(token, now) = stamp /\ parse_mmdd_date_input(token, now) = stamp

\* the new-record text and the modify text that carry the date token
RecordWithDate(token) == CommandLine(<<<<"a">>, <<"5">>, token>>, <<" ">>)
ModifyWithDate(token) == CommandLine(<<ModifyWord, <<"1">>, token>>, <<" ">>)

\* the row a new-record text leaves is stamped stamp
RecordsAt(st, e, stamp) ==
    \E out \in {handle_message_text(st, e)} :
        /\ Cardinality(out.st.records) = Cardinality(st.records) + 1
        /\ \A r \in out.st.records \ st.records : from_db_created_at(r.created_at) = stamp

\* C20: the MM/DD parser of the new-record and modify commands accepts a
\* month/day token exactly when it is a date of the calendar of the current
\* year, and the timestamp it gives has the current year, that month and day,
\* and the hour, minute and second of the moment of parsing; a new-record text
\* with such a token stores its row under that timestamp.
C20_DateOfCurrentYear ==
    /\ \A now \in DateClocks : \A m \in DateMeanings :
          IF ValidDate(now.year, m.month, m.day)
              THEN ParsesTo(m.token, now, Some(StampOf(m.month, m.day, now)))
              ELSE ParsesTo(m.token, now, None)
    /\ \A e \in RecordTextEvents(Store) : \A m \in DateMeanings :
          (e.text = RecordWithDate(m.token) /\ ValidDate(e.now.year, m.month, m.day))
              => RecordsAt(Store, e, StampOf(m.month, m.day, e.now))

\* C20 (what the code keeps): the same with the calendar of a common year in
\* place of the calendar of the current year, so that 02/29 is refused in every year.
C20_DateOfCommonYear ==
    /\ \A now \in DateClocks : \A m \in DateMeanings :
          IF ValidDate(1900, m.month, m.day)
              THEN ParsesTo(m.token, now, Some(StampOf(m.month, m.day, now)))
              ELSE ParsesTo(m.token, now, None)
    /\ \A e \in RecordTextEvents(Store) : \A m \in DateMeanings :
          IF e.text = RecordWithDate(m.token) /\ ValidDate(1900, m.month, m.day)
              THEN RecordsAt(Store, e, StampOf(m.month, m.day, e.now))
              ELSE e.text = RecordWithDate(m.token) => FailsUnchanged(Store, e)
    /\ \A e \in TextEvents(Store) : \A m \in DateMeanings :
          (e.text = ModifyWithDate(m.token) /\ ~ValidDate(1900, m.month, m.day))
              => FailsUnchanged(Store, e)

\* a row stored under 02/07 of the leap year of the clock, at the clock's time
\* of day, while the leap day is at hand as a token
C20_StampedRow ==
    /\ \E r \in records :
          from_db_created_at(r.created_at)
              = [year |-> 2024, month |-> 2, day |-> 7, hour |-> 10, minute |-> 11,
                 second |-> 12]
    /\ \E e \in RecordTextEvents(Store) : e.text = RecordWithDate(<<"0", "2", "/", "2", "9">>)


\* ------------------------------------------------ options of a record line
\* the single-line new-record texts of the machine, by item and optional fields
OptionCases ==
    {[item |-> <<"a">>, fields |-> o] : o \in OptionFields}
        \cup {[item |-> BankWord \o <<"x">>, fields |-> o] : o \in {<<>>, <<<<"zhi1", "chu1">>>>}}

OptionText(case) == CommandLine(<<case.item, <<"5">>>> \o case.fields, <<" ">>)

\* the options left when the @target token is taken out
OptionsOf(case) == SelectSeq(case.fields, IsNoTargetField)

IsTypeWord(option) == option \in ExpenseWords \cup IncomeWords
TypeOfWord(option) == IF option \in IncomeWords THEN "income" ELSE "expense"
DefaultType(item) == IF Contains(item, BankWord) THEN "income" ELSE "expense"
\* the MM/DD parser takes the option for a date
IsDateOption(option, now) == ~IsNone(parse_mmdd_date(option, now))

\* the type and the date a line with these options is to be recorded under, or
\* None when the line is to fail
ExpectedOfOptions(item, options, now) ==
    CASE Len(options) = 0 -> Some([record_type |-> DefaultType(item), record_datetime |-> now])
      [] Len(options) = 1 ->
            IF IsTypeWord(options[1])
                THEN Some([record_type |-> TypeOfWord(options[1]), record_datetime |-> now])
            ELSE IF IsDateOption(options[1], now)
                THEN Some([record_type |-> DefaultType(item),
                           record_datetime |-> Val(parse_mmdd_date(options[1], now))])
            ELSE None
      [] Len(options) = 2 ->
            IF IsTypeWord(options[1]) /\ IsDateOption(options[2], now)
                THEN Some([record_type |-> TypeOfWord(options[1]),
                           record_datetime |-> Val(parse_mmdd_date(options[2], now))])
                ELSE None
      [] OTHER -> None

\* the text leaves exactly one new row, of that type and under that date
RecordsAs(st, e, expected) ==
    \E out \in {handle_message_text(st, e)} :
        /\ Cardinality(out.st.records) = Cardinality(st.records) + 1
        /\ \A r \in out.st.records \ st.records :
              /\ r.record_type = expected.record_type
              /\ r.created_at = to_db_created_at(expected.record_datetime)
              /\ r.amount = 5

RouterKeywords ==
    {DeleteWord, ModifyWord, UpdateWord, <<"cha2", "xun2">>, <<"zong3", "lan3">>,
     <<"yu2", "e2">>, <<"suan4", "qian2">>, <<"fen1", "zhang4">>,
     MemberWord \o <<"jian3", "cha2">>, MemberWord, <<"xin1", "zeng1">> \o MemberWord,
     DeleteWord \o MemberWord, <<"bu3", "kuan3">>, <<"zhuang4", "tai4">>,
     <<"fan4", "wei2", "cha2", "xun2">>, <<"xiang2", "xi4", "cha2", "xun2">>}

\* the batches of the machine with a line whose first field is the keyword
KeywordBatchTexts(keywords) ==
    {l1 \o <<"NL">> \o CommandLine(<<k, <<"5">>>>, <<" ">>) :
        l1 \in {CommandLine(<<<<"a">>, <<"5">>>>, <<" ">>)}, k \in keywords}

\* the items of the rows the text adds
NewItems(st, e) == {r.item : r \in handle_message_text(st, e).st.records \ st.records}

\* C22: a new-record batch with a line whose first field is a command keyword
\* of the router fails validation, and no new-record text creates a record whose
\* item is such a keyword.
C22_KeywordLinesRefused ==
    \A e \in RecordTextEvents(Store) :
        /\ e.text \in KeywordBatchTexts(RouterKeywords) => BatchRefused(Store, e)
        /\ NewItems(Store, e) \cap RouterKeywords = {}

\* C22 (what the code keeps): the same for the words of command_keywords, which
\* lack the settlement alias, the status word and the update word.
C22_ReservedLinesRefused ==
    \A e \in RecordTextEvents(Store) :
        /\ e.text \in KeywordBatchTexts(command_keywords) => BatchRefused(Store, e)
        /\ NewItems(Store, e) \cap command_keywords = {}
        /\ e.text \in KeywordBatchTexts(RouterKeywords \ command_keywords)
              => NewItems(Store, e) \cap RouterKeywords # {}

\* a ledger holding a row whose item is the settlement alias
C22_KeywordRow ==
    /\ \E r \in records : r.item = <<"fen1", "zhang4">>
    /\ \E r \in records : r.item = <<"a">>


\* ------------------------------------------------------------------ C23
\* the replies that report a format error, a value error or a missing target
ErrorKinds ==
    {"error", "member_not_found", "member_not_manual", "manual_not_found",
     "delete_not_found", "modify_not_found"}

RepliedError(out) == \E i \in 1..Len(out.replies) : out.replies[i].kind \in ErrorKinds

\* C23: a command answered with an error reply leaves the records, the
\* manual-member table and the settlement payments as they were, and leaves
\* the pending-delete slot of its conversation idle.
C23_ErrorRepliesChangeNothing ==
    \A e \in Events(Store) :
        \E out \in {handle_message(Store, e)} :
            RepliedError(out) =>
                /\ out.st.records = records
                /\ out.st.next_id = next_id
                /\ out.st.manual = manual_members
                /\ out.st.payments = settlement_payments
                /\ e.chat_id \notin DOMAIN out.st.pending

\* a conversation with an armed slot, a manual member and a payment on file,
\* where a delete-member command names an entry that is not manual
C23_Witness ==
    /\ "group:G" \in DOMAIN PENDING_DELETE
    /\ \E m \in manual_members : m.chat_id = "group:G"
    /\ settlement_payments # <<>>
    /\ \E e \in DeleteMemberEvents(Store) :
           /\ e.chat_id = "group:G"
           /\ handle_message(Store, e).replies[1].kind = "member_not_manual"
    /\ \E e \in ModifyEvents(Store) :
           /\ e.chat_id = "group:G"
           /\ handle_message(Store, e).replies[1].kind = "modify_not_found"


\* ------------------------------------------------------------------ C24
\* the member-check listing a delete-member command reads
ListingOf(e) ==
    build_member_check_data(e.chat_id, e.user_id, e.msg.api_ok, e.msg.paid_rows,
                            e.msg.manual_names)

\* the command names a manual entry of the listing
NamesManualEntry(e) ==
    /\ e.msg.index <= Len(ListingOf(e))
    /\ ListingOf(e)[e.msg.index].source = "manual"

\* the rows of the manual-member table that the listed entry stands for
ListedMember(st, e) ==
    {m \in st.manual :
        /\ m.chat_id = e.chat_id
        /\ ManualId(m.member_name) = ListingOf(e)[e.msg.index].user_id}

\* the command removed the member its entry stands for, and no other
RemovesListed(st, e, out) ==
    /\ Cardinality(ListedMember(st, e)) = 1
    /\ out.st.manual = st.manual \ ListedMember(st, e)

\* the name is stored as the commands that delete it read it
PlainName(name) == normalize_manual_member_name(name) = name

\* C24: a delete-member command with index i removes a manual member only when
\* the i-th entry of the member-check listing is manual, and then removes
\* exactly the member of that entry; otherwise it replies with an error and
\* leaves the manual-member table unchanged.
C24_DeleteMemberRemovesListed ==
    \A e \in DeleteMemberEvents(Store) :
        \E out \in {handle_message(Store, e)} :
            IF NamesManualEntry(e)
                THEN RemovesListed(Store, e, out)
                ELSE RepliedError(out) /\ out.st.manual = manual_members

\* C24 (what the code keeps): the same for every entry whose name has no at
\* sign in front; an entry whose name has one is answered by removing the
\* member named without it, or by an error when there is none.
C24_DeleteMemberRemovesPlainListed ==
    \A e \in DeleteMemberEvents(Store) :
        \E out \in {handle_message(Store, e)} :
            IF NamesManualEntry(e)
                THEN IF PlainName(ListingOf(e)[e.msg.index].display_name)
                         THEN RemovesListed(Store, e, out)
                         ELSE out.st.manual =
                                  delete_manual_member(
                                      manual_members, e.chat_id,
                                      normalize_manual_member_name(
                                          ListingOf(e)[e.msg.index].display_name))
                ELSE RepliedError(out) /\ out.st.manual = manual_members

\* two manual members on file whose names differ by the at sign
C24_TwoMembers ==
    /\ \E m \in manual_members : m.member_name = "@Amy"
    /\ \E m \in manual_members : m.member_name = "Amy"
    /\ \E e \in DeleteMemberEvents(Store) :
           /\ NamesManualEntry(e)
           /\ ListingOf(e)[e.msg.index].display_name = "@Amy"


\* ------------------------------------------------------------------ C25
\* the rows of the settled conversation stamped in a calendar month
RowsOfMonth(year, month, record_type) ==
    {r \in ChatRecords(records, "group:G") :
        /\ r.record_type = record_type
        /\ from_db_created_at(r.created_at).year = year
        /\ from_db_created_at(r.created_at).month = month}

\* income minus expense of the calendar month before the one settled
CarriedBalance(range_spec) ==
    IF range_spec.month = 1
        THEN SumAmounts(RowsOfMonth(range_spec.year - 1, 12, "income"))
                 - SumAmounts(RowsOfMonth(range_spec.year - 1, 12, "expense"))
        ELSE SumAmounts(RowsOfMonth(range_spec.year, range_spec.month - 1, "income"))
                 - SumAmounts(RowsOfMonth(range_spec.year, range_spec.month - 1, "expense"))

MonthExpense(range_spec) ==
    SumAmounts(RowsOfMonth(range_spec.year, range_spec.month, "expense"))
MonthIncome(range_spec) ==
    SumAmounts(RowsOfMonth(range_spec.year, range_spec.month, "income"))

\* the settlement of a month got as far as its totals
PoolSet == calc.pc = "roster" /\ "range_spec" \in DOMAIN calc.input

\* C25: the reimbursement pool of a settlement is min(total expense of the
\* month, max(0, carried balance + income of the month)), the carried balance
\* being income minus expense of the calendar month before; so the pool lies
\* between 0 and the total expense, and the residual is the total minus the pool.
C25_PoolIsCappedFund ==
    PoolSet =>
        /\ calc.totals.total_expense = MonthExpense(calc.input.range_spec)
        /\ calc.totals.bank_reimbursement_total =
               Min(MonthExpense(calc.input.range_spec),
                   Max(0, CarriedBalance(calc.input.range_spec)
                              + MonthIncome(calc.input.range_spec)))
        /\ calc.totals.bank_reimbursement_total >= 0
        /\ calc.totals.bank_reimbursement_total <= calc.totals.total_expense
        /\ calc.totals.member_extra_total =
               calc.totals.total_expense - calc.totals.bank_reimbursement_total

\* a January settled with a loss carried from the December before, rows on both
\* edges of the two months, and a pool that covers part of the expense
C25_Witness ==
    /\ PoolSet
    /\ calc.input.range_spec.month = 1
    /\ CarriedBalance(calc.input.range_spec) < 0
    /\ calc.totals.bank_reimbursement_total > 0
    /\ calc.totals.bank_reimbursement_total < calc.totals.total_expense
    /\ \E r \in records : from_db_created_at(r.created_at).month = 2


\* ------------------------------------------------------------------ C26
RecordIds(recs) == {r.id : r \in recs}

\* the stable ids the pending-delete slots and the cached listings hold
HeldIds ==
    {PENDING_DELETE[c].real_id : c \in DOMAIN PENDING_DELETE}
        \cup UNION {SeqRange(LAST_DETAIL_VIEW[c]) : c \in DOMAIN LAST_DETAIL_VIEW}

\* every id given out so far lies below the next one, and names one row at most
IdsGivenOnce ==
    /\ \A r \in records : r.id < next_id
    /\ \A i \in HeldIds : i < next_id
    /\ \A r1, r2 \in records : r1.id = r2.id => r1 = r2

\* a step gives new rows ids not given before, in increasing order, and leaves
\* every other id with the row it had: same conversation, same owner
IdsKept ==
    /\ next_id' >= next_id
    /\ \A r \in records' :
           IF r.id \in RecordIds(records)
               THEN \E o \in records :
                        o.id = r.id /\ o.chat_id = r.chat_id /\ o.user_id = r.user_id
               ELSE r.id >= next_id /\ r.id < next_id'
    /\ \A r1, r2 \in records' \ records :
           r1.id \notin RecordIds(records) /\ r2.id \notin RecordIds(records)
               /\ r1.id = r2.id => r1 = r2

\* C26: stable ids are given in strictly increasing order when a record is
\* created, no modify changes one and no id is given again after a delete, so
\* an id held by a pending-delete slot or by a cached listing never comes to
\* name another record than the one captured.
C26_StableIdsNeverReused == [](IdsGivenOnce) /\ [][IdsKept]_vars

\* a cached listing still holds the id of a deleted record while a record
\* created afterwards is on file
C26_Witness ==
    /\ "group:G" \in DOMAIN LAST_DETAIL_VIEW
    /\ \E i \in SeqRange(LAST_DETAIL_VIEW["group:G"]) :
           /\ i \notin RecordIds(records)
           /\ \E r \in records : r.chat_id = "group:G" /\ r.id > i


\* ------------------------------------------------------------------ C27
\* the records of a conversation that its armed slot names
SlotRecords(c) ==
    {r \in records : r.chat_id = c /\ r.id = PENDING_DELETE[c].real_id}

\* a confirmation sent to a conversation whose slot is armed
ArmedConfirmEvents(st) == {e \in ConfirmEvents(st) : e.chat_id \in DOMAIN st.pending}

\* C27: with events handled one at a time, an armed pending-delete slot always
\* names a record that exists in its conversation; so a confirmation deletes
\* exactly one record and never answers that the record was not found.
C27_ArmedSlotNamesExistingRecord ==
    /\ \A c \in DOMAIN PENDING_DELETE : Cardinality(SlotRecords(c)) = 1
    /\ \A e \in ArmedConfirmEvents(Store) :
           \E out \in {handle_message(Store, e)} :
               /\ out.st.records \subseteq records
               /\ records \ out.st.records = SlotRecords(e.chat_id)
               /\ out.replies = <<Reply("deleted", PENDING_DELETE[e.chat_id].display_id, <<>>)>>

\* a slot armed in a conversation with two records, the older one captured
C27_Witness ==
    /\ "group:G" \in DOMAIN PENDING_DELETE
    /\ Cardinality(ChatRecords(records, "group:G")) = 2
    /\ \E r \in records : r.id > PENDING_DELETE["group:G"].real_id


\* ------------------------------------------------------------------ C28
\* the record a command naming display id k addresses in conversation c
Resolved(c, k) == ResolveDisplayId(Store, c, k)

\* C28: in a conversation with n records and no cached listing, the display
\* ids 1..n resolve to n pairwise distinct records of the conversation, also
\* when records share their created-at, and a display id above n resolves to
\* no record.
C28_DisplayIdsAreABijection ==
    \A c \in Chats \ DOMAIN LAST_DETAIL_VIEW :
        \E n \in {Cardinality(ChatRecords(records, c))} :
            /\ \A k \in 1..n :
                   /\ ~IsNone(Resolved(c, k))
                   /\ Val(Resolved(c, k)) \in ChatRecords(records, c)
            /\ \A k, j \in 1..n : k # j => Resolved(c, k) # Resolved(c, j)
            /\ {Val(Resolved(c, k)) : k \in 1..n} = ChatRecords(records, c)
            /\ \A k \in (n + 1)..(MaxRows + 2) : IsNone(Resolved(c, k))

\* two records of one conversation stamped alike and no listing cached
C28_Witness ==
    \E c \in Chats \ DOMAIN LAST_DETAIL_VIEW :
        /\ \E r1, r2 \in ChatRecords(records, c) :
               r1.id # r2.id /\ r1.created_at = r2.created_at


\* ------------------------------------------------------------------ C29
\* the allocation of participant u lies between nothing and what u paid
WithinPaid(c, u) == ~WideLess(c.weight_map[u], c.allocations[u])

\* C29: for non-negative paid amounts of positive total W and a pool from 0 to
\* W, the proportional allocation gives every participant an amount from 0 to
\* what the participant paid, and nothing to one who paid nothing; so nobody's
\* paid amount after the reimbursement is negative.
C29_AllocationWithinPaid ==
    calc.pc \in {"allocated", "shared"} /\ TotalWeight(calc) # <<>> =>
        \A u \in SeqRange(calc.weighted_ids) :
            /\ WithinPaid(calc, u)
            /\ calc.weight_map[u] = <<>> => calc.allocations[u] = <<>>

\* C29 (what the code keeps): the same while the total paid is below 2^53,
\* where every quotient the allocation takes is a float close to the exact one.
C29_AllocationWithinPaidBelowMantissa ==
    calc.pc \in {"allocated", "shared"} /\ TotalWeight(calc) # <<>>
        /\ WideLess(TotalWeight(calc), ShiftL(<<1>>, MantissaBits)) =>
        \A u \in SeqRange(calc.weighted_ids) :
            /\ WithinPaid(calc, u)
            /\ calc.weight_map[u] = <<>> => calc.allocations[u] = <<>>

\* a participant was allocated more than the participant paid
C29_OverAllocated ==
    /\ calc.pc = "allocated"
    /\ ~WideLess(TotalWeight(calc), calc.total_amount)
    /\ \E u \in SeqRange(calc.weighted_ids) : ~WithinPaid(calc, u)


\* ------------------------------------------------------------------ C30
\* the sweep is under way or has ended
Swept(c) == c.pc = "sweep" \/ Settled(c)

Payers30(c) == {c.transfers[i].from_user_id : i \in 1..Len(c.transfers)}
Receivers30(c) == {c.transfers[i].to_user_id : i \in 1..Len(c.transfers)}

\* the transfers emitted so far: no more than creditors + debtors - 1, each of
\* a positive amount, from a participant of negative net delta to one of
\* positive net delta, nobody on both sides
SweepTransfersSound(c) ==
    /\ Len(c.transfers) <= Max(0, Len(c.creditors) + Len(c.debtors) - 1)
    /\ \A i \in 1..Len(c.transfers) :
           /\ c.transfers[i].amount > 0
           /\ c.delta[c.transfers[i].from_user_id] < 0
           /\ c.delta[c.transfers[i].to_user_id] > 0
    /\ Payers30(c) \cap Receivers30(c) = {}

\* a pass of the loop moves the creditor pointer or the debtor pointer on
SweepAdvances ==
    calc.pc = "sweep" /\ calc'.pc = "sweep" =>
        /\ calc'.creditor_index >= calc.creditor_index
        /\ calc'.debtor_index >= calc.debtor_index
        /\ calc'.creditor_index + calc'.debtor_index
               > calc.creditor_index + calc.debtor_index

\* C30: the greedy sweep always ends; every pass advances the creditor or the
\* debtor pointer, so c creditors and d debtors get at most c + d - 1
\* transfers; every transfer has a positive amount and goes from a participant
\* of negative net delta to one of positive net delta, and nobody both pays
\* and receives.
C30_SweepTerminates ==
    /\ [](Swept(calc) => SweepTransfersSound(calc))
    /\ [][SweepAdvances]_vars
    /\ (calc.pc = "sweep" ~> Settled(calc))

\* a sweep over two creditors and two debtors ended with three transfers
C30_Witness ==
    /\ Settled(calc)
    /\ Len(calc.creditors) = 2
    /\ Len(calc.debtors) = 2
    /\ Len(calc.transfers) = 3

====
